---- MODULE Spec2Model ----
(***************************************************************************)
(* A model of rice-cli: the validator, the content hasher, the archive     *)
(* packager and the signer.                                                *)
(*                                                                         *)
(* Strings and file contents are byte sequences (sequences of integers).   *)
(* In file contents a negative entry -n stands for a run of n zero bytes,  *)
(* so that files of 10 KB and more stay small; explicit bytes are 1..255.  *)
(* A file tree is a set of entries [path, dir, data] whose path is the     *)
(* '/'-separated path relative to the root of the tree.                    *)
(***************************************************************************)
EXTENDS Integers, Sequences, FiniteSets, TLC

VARIABLES
    srcDir,      \* the source directory given to validate / build / info
    bundle,      \* the file at the bundle path (build output, sign input)
    bundleTmp,   \* the file at bundlePath + ".tmp"
    scratch,     \* scratch directories that still exist on disk
    report,      \* the Report of the last validation
    last,        \* what the last command did and returned
    hashIn,      \* content hasher: the tree and the walk order it is given
    hashOut,     \* content hasher: the digest computed from hashIn
    exArchive,   \* extractBundle: the archive it is given
    exResult,    \* extractBundle: the error and the files it wrote
    manifest,    \* field checks: the manifest yaml.Unmarshal has filled in
    sniffIn,     \* verifyMagicBytes: the file content and the extension given
    sniffOut     \* verifyMagicBytes: whether it has run and the error text

vars == <<srcDir, bundle, bundleTmp, scratch, report, last,
          hashIn, hashOut, exArchive, exResult, manifest,
          sniffIn, sniffOut>>

----------------------------------------------------------------------------
(* Bounds of the model *)

MaxExtras == 1        \* extra entries added to a source tree
MaxHashFiles == 3     \* files of a tree given to the content hasher
MaxArchiveLen == 2    \* entries of a crafted archive given to extractBundle
MaxResults == 2       \* results added to a hand-built report
MaxTracks == 2        \* tracks in a manifest of the field checks
MaxPad == 2           \* bytes that follow a signature in a sniffed file
MaxEntries == 3       \* entries put into audio/ or images/ of a content tree

----------------------------------------------------------------------------
(* Byte strings *)

Slash == 47
Dot == 46

Min(a, b) == IF a < b THEN a ELSE b

HasPrefix(s, p) == Len(p) <= Len(s) /\ SubSeq(s, 1, Len(p)) = p

Contains(s, sub) ==
    \E i \in 0..(Len(s) - Len(sub)) : SubSeq(s, i + 1, i + Len(sub)) = sub

ToLowerByte(b) == IF b >= 65 /\ b <= 90 THEN b + 32 ELSE b

ToLower(s) == [i \in 1..Len(s) |-> ToLowerByte(s[i])]

\* Positions of the separators of a path.
SlashPos(p) == {i \in 1..Len(p) : p[i] = Slash}

LastSlash(p) ==
    IF SlashPos(p) = {} THEN 0
    ELSE CHOOSE i \in SlashPos(p) : \A j \in SlashPos(p) : j <= i

\* filepath.Base of a path without trailing separator.
Base(p) == SubSeq(p, LastSlash(p) + 1, Len(p))

\* filepath.Dir; the empty sequence stands for ".".
DirOf(p) == IF LastSlash(p) = 0 THEN <<>> ELSE SubSeq(p, 1, LastSlash(p) - 1)

\* filepath.Ext: the suffix beginning at the final dot of the final element.
Ext(p) ==
    LET dots == {i \in (LastSlash(p) + 1)..Len(p) : p[i] = Dot}
    IN  IF dots = {} THEN <<>>
        ELSE SubSeq(p, CHOOSE i \in dots : \A j \in dots : j <= i, Len(p))

\* filepath.Join of two non-empty elements (already clean).
JoinPath(a, b) == IF a = <<>> THEN b ELSE a \o <<Slash>> \o b

\* Length of the longest common prefix.
CommonLen(a, b) ==
    LET m == Min(Len(a), Len(b))
        diff == {i \in 1..m : a[i] # b[i]}
    IN  IF diff = {} THEN m ELSE (CHOOSE i \in diff : \A j \in diff : i <= j) - 1

\* Go string comparison a < b: byte-wise lexicographic.
StrLess(a, b) ==
    LET k == CommonLen(a, b)
    IN  IF k = Len(b) THEN FALSE
        ELSE IF k = Len(a) THEN TRUE
        ELSE a[k + 1] < b[k + 1]

RECURSIVE InsertSorted(_, _)
InsertSorted(x, s) ==
    IF s = <<>> THEN <<x>>
    ELSE IF StrLess(s[1], x) THEN <<s[1]>> \o InsertSorted(x, Tail(s))
    ELSE <<x>> \o s

RECURSIVE SortStrings(_)
\* sort.Strings
SortStrings(s) ==
    IF s = <<>> THEN <<>> ELSE InsertSorted(s[1], SortStrings(Tail(s)))

\* The order of filepath.Walk and os.ReadDir: names sorted per directory,
\* a directory before its contents; that is the byte order of the paths
\* with the separator below every other byte.
WalkKey(p) == [i \in 1..Len(p) |-> IF p[i] = Slash THEN 0 ELSE p[i]]

RECURSIVE InsertWalk(_, _)
InsertWalk(x, s) ==
    IF s = <<>> THEN <<x>>
    ELSE IF StrLess(WalkKey(s[1]), WalkKey(x))
         THEN <<s[1]>> \o InsertWalk(x, Tail(s))
    ELSE <<x>> \o s

RECURSIVE SetToWalkSeq(_)
SetToWalkSeq(S) ==
    IF S = {} THEN <<>>
    ELSE LET x == CHOOSE y \in S : TRUE
         IN  InsertWalk(x, SetToWalkSeq(S \ {x}))

\* Number of bytes of a file content.
RECURSIVE Size(_)
Size(d) ==
    IF d = <<>> THEN 0
    ELSE (IF d[1] < 0 THEN 0 - d[1] ELSE 1) + Size(Tail(d))

\* The first n bytes of a file content (file.Read into a buffer of n bytes).
RECURSIVE ReadHeader(_, _)
ReadHeader(d, n) ==
    IF n = 0 \/ d = <<>> THEN <<>>
    ELSE IF d[1] < 0
         THEN IF 0 - d[1] >= n THEN [i \in 1..n |-> 0]
              ELSE [i \in 1..(0 - d[1]) |-> 0] \o ReadHeader(Tail(d), n + d[1])
    ELSE <<d[1]>> \o ReadHeader(Tail(d), n - 1)

----------------------------------------------------------------------------
(* Names *)

ManifestName == <<109, 97, 110, 105, 102, 101, 115, 116, 46, 121, 97, 109, 108>>  \* "manifest.yaml"
CopyrightName == <<99, 111, 112, 121, 114, 105, 103, 104, 116, 46, 116, 120, 116>>  \* "copyright.txt"
AudioName == <<97, 117, 100, 105, 111>>  \* "audio"
ImagesName == <<105, 109, 97, 103, 101, 115>>  \* "images"
CoverStem == <<99, 111, 118, 101, 114>>  \* "cover"
SignatureName == <<115, 105, 103, 110, 97, 116, 117, 114, 101, 46, 115, 105, 103>>  \* "signature.sig"
ReadmeName == <<82, 69, 65, 68, 77, 69, 46, 116, 120, 116>>  \* "README.txt"
DotDot == <<46, 46>>  \* ".."

ExtJpg == <<46, 106, 112, 103>>  \* ".jpg"
ExtJpeg == <<46, 106, 112, 101, 103>>  \* ".jpeg"
ExtMp3 == <<46, 109, 112, 51>>  \* ".mp3"
ExtFlac == <<46, 102, 108, 97, 99>>  \* ".flac"
ExtOgg == <<46, 111, 103, 103>>  \* ".ogg"
ExtWav == <<46, 119, 97, 118>>  \* ".wav"
ExtTxt == <<46, 116, 120, 116>>  \* ".txt"
ExtYaml == <<46, 121, 97, 109, 108>>  \* ".yaml"
ExtYml == <<46, 121, 109, 108>>  \* ".yml"
ExtSig == <<46, 115, 105, 103>>  \* ".sig"

AllowedAudioExtensions == {ExtMp3, ExtFlac, ExtOgg, ExtWav}
AllowedImageExtensions == {ExtJpg, ExtJpeg}
AllowedTextExtensions == {ExtTxt, ExtYaml, ExtYml}
AllowedSignatureExtensions == {ExtSig}

AllAllowedExtensions ==
    AllowedAudioExtensions \cup AllowedImageExtensions
        \cup AllowedTextExtensions \cup AllowedSignatureExtensions

MaxSingleAudioFile == 200 * 1024 * 1024
MaxSingleImageFile == 20 * 1024 * 1024
MaxCopyrightSize == 10 * 1024
MinCoverFileSize == 10 * 1024

----------------------------------------------------------------------------
(* File trees *)

File(p, d) == [path |-> p, dir |-> FALSE, data |-> d]
Directory(p) == [path |-> p, dir |-> TRUE, data |-> <<>>]

Exists(tree, p) == \E e \in tree : e.path = p
EntryAt(tree, p) == CHOOSE e \in tree : e.path = p
IsDirAt(tree, p) == \E e \in tree : e.path = p /\ e.dir
IsFileAt(tree, p) == \E e \in tree : e.path = p /\ ~e.dir

\* os.ReadDir: the names directly inside d, sorted by name.
ReadDir(tree, d) ==
    SetToWalkSeq({e.path : e \in {x \in tree : x.path # <<>> /\ DirOf(x.path) = d
                                               /\ (d # <<>> \/ LastSlash(x.path) = 0)}})

\* filepath.Walk below the root: every entry, in lexical order.
Walk(tree) == SetToWalkSeq({e.path : e \in tree})

----------------------------------------------------------------------------
(* The manifest: the documents the model knows and what yaml.Unmarshal     *)
(* makes of them.  Every other byte string is not valid YAML.              *)

\* {manifest_version: 1, release: {title: T, artist: A, release_date: "2024"},
\*  tracks: [{number: 1, title: S, filename: a}], audio_formats: [{format: mp3}],
\*  images: {cover: {filename: cover.jpg}},
\*  rights: {copyright_year: 2024, copyright_holder: J}, bundle: {bundle_id: b1}}
DocFull == <<
    123, 109, 97, 110, 105, 102, 101, 115, 116, 95, 118, 101, 114, 115, 105,
    111, 110, 58, 32, 49, 44, 32, 114, 101, 108, 101, 97, 115, 101, 58, 32,
    123, 116, 105, 116, 108, 101, 58, 32, 84, 44, 32, 97, 114, 116, 105, 115,
    116, 58, 32, 65, 44, 32, 114, 101, 108, 101, 97, 115, 101, 95, 100, 97,
    116, 101, 58, 32, 34, 50, 48, 50, 52, 34, 125, 44, 32, 116, 114, 97, 99,
    107, 115, 58, 32, 91, 123, 110, 117, 109, 98, 101, 114, 58, 32, 49, 44,
    32, 116, 105, 116, 108, 101, 58, 32, 83, 44, 32, 102, 105, 108, 101, 110,
    97, 109, 101, 58, 32, 97, 125, 93, 44, 32, 97, 117, 100, 105, 111, 95,
    102, 111, 114, 109, 97, 116, 115, 58, 32, 91, 123, 102, 111, 114, 109,
    97, 116, 58, 32, 109, 112, 51, 125, 93, 44, 32, 105, 109, 97, 103, 101,
    115, 58, 32, 123, 99, 111, 118, 101, 114, 58, 32, 123, 102, 105, 108,
    101, 110, 97, 109, 101, 58, 32, 99, 111, 118, 101, 114, 46, 106, 112,
    103, 125, 125, 44, 32, 114, 105, 103, 104, 116, 115, 58, 32, 123, 99,
    111, 112, 121, 114, 105, 103, 104, 116, 95, 121, 101, 97, 114, 58, 32,
    50, 48, 50, 52, 44, 32, 99, 111, 112, 121, 114, 105, 103, 104, 116, 95,
    104, 111, 108, 100, 101, 114, 58, 32, 74, 125, 44, 32, 98, 117, 110, 100,
    108, 101, 58, 32, 123, 98, 117, 110, 100, 108, 101, 95, 105, 100, 58, 32,
    98, 49, 125, 125 >>

\* bundle: {bundle_id: b2}
DocIdOnly == <<
    98, 117, 110, 100, 108, 101, 58, 32, 123, 98, 117, 110, 100, 108, 101,
    95, 105, 100, 58, 32, 98, 50, 125 >>

\* "{" : not valid YAML
DocBad == <<123>>

\* The zero value of manifest.Manifest.
ZeroManifest ==
    [ManifestVersion |-> 0, Title |-> "", Artist |-> "", ReleaseDate |-> "",
     Tracks |-> <<>>, AudioFormats |-> <<>>, CoverFilename |-> "",
     CopyrightYear |-> 0, CopyrightHolder |-> "", BundleID |-> <<>>]

FullManifest ==
    [ManifestVersion |-> 1, Title |-> "T", Artist |-> "A", ReleaseDate |-> "2024",
     Tracks |-> <<[Number |-> 1, Title |-> "S", Filename |-> "a"]>>,
     AudioFormats |-> <<"mp3">>, CoverFilename |-> "cover.jpg",
     CopyrightYear |-> 2024, CopyrightHolder |-> "J", BundleID |-> <<98, 49>>]

yamlUnmarshal(data) ==
    IF data = DocFull THEN [err |-> FALSE, m |-> FullManifest]
    ELSE IF data = DocIdOnly
         THEN [err |-> FALSE, m |-> [ZeroManifest EXCEPT !.BundleID = <<98, 50>>]]
    ELSE IF data = <<>> THEN [err |-> FALSE, m |-> ZeroManifest]
    ELSE [err |-> TRUE, m |-> ZeroManifest]

\* os.ReadFile of a path of the tree.
ReadFile(tree, p) ==
    IF IsFileAt(tree, p) THEN [err |-> FALSE, data |-> EntryAt(tree, p).data]
    ELSE [err |-> TRUE, data |-> <<>>]

----------------------------------------------------------------------------
(* The validator *)

Categories == <<"Structure", "Manifest", "Audio", "Images", "Security", "Copyright">>

EmptyReport == [Results |-> <<>>, Errors |-> 0, Warns |-> 0]

\* addResult that counts by the severity alone, passed or not.
addResultCountPassed(rep, category, check, passed, severity, message) ==
    [Results |-> Append(rep.Results,
                        [Category |-> category, Check |-> check, Passed |-> passed,
                         Severity |-> severity, Message |-> message]),
     Errors |-> IF severity = "error" THEN rep.Errors + 1 ELSE rep.Errors,
     Warns |-> IF ~passed /\ severity # "error" THEN rep.Warns + 1 ELSE rep.Warns]

addResult(rep, category, check, passed, severity, message) ==
    [Results |-> Append(rep.Results,
                        [Category |-> category, Check |-> check, Passed |-> passed,
                         Severity |-> severity, Message |-> message]),
     Errors |-> IF ~passed /\ severity = "error" THEN rep.Errors + 1 ELSE rep.Errors,
     Warns |-> IF ~passed /\ severity # "error" THEN rep.Warns + 1 ELSE rep.Warns]

\* A check name: a fixed text and the name or index formatted into it.
Chk(name, arg) == [name |-> name, arg |-> arg]

\* The recurring check recording a failure as a warning.
passOrWarning(rep, category, check, ok, message) ==
    IF ok THEN addResult(rep, category, check, TRUE, "", "")
    ELSE addResult(rep, category, check, FALSE, "warning", message)

\* The recurring "if bad { addResult(.., false, "error", msg) } else
\* { addResult(.., true, "", "") }".
passOrError(rep, category, check, ok, message) ==
    IF ok THEN addResult(rep, category, check, TRUE, "", "")
    ELSE addResult(rep, category, check, FALSE, "error", message)

CoverExists(tree) ==
    \E ext \in {ExtJpg, ExtJpeg} :
        Exists(tree, JoinPath(ImagesName, CoverStem \o ext))

validateStructure(rep, tree) ==
    LET r1 == passOrError(rep, "Structure", Chk("manifest.yaml exists", <<>>),
                          Exists(tree, ManifestName), "manifest.yaml not found")
        r2 == passOrError(r1, "Structure", Chk("copyright.txt exists", <<>>),
                          Exists(tree, CopyrightName), "copyright.txt not found")
        r3 == passOrError(r2, "Structure", Chk("audio/ directory exists", <<>>),
                          IsDirAt(tree, AudioName), "audio/ directory not found")
        r4 == passOrError(r3, "Structure", Chk("images/ directory exists", <<>>),
                          IsDirAt(tree, ImagesName), "images/ directory not found")
    IN  passOrError(r4, "Structure", Chk("cover image exists", <<>>),
                    CoverExists(tree), "cover.jpg not found in images/")

RECURSIVE validateTracks(_, _, _)
validateTracks(rep, tracks, i) ==
    IF i > Len(tracks) THEN rep
    ELSE LET t == tracks[i]
             r1 == IF t.Number = 0
                   THEN addResult(rep, "Manifest", Chk("track[%d].number", <<i - 1>>),
                                  FALSE, "error", "track number is required")
                   ELSE rep
             r2 == IF t.Title = ""
                   THEN addResult(r1, "Manifest", Chk("track[%d].title", <<i - 1>>),
                                  FALSE, "error", "track title is required")
                   ELSE r1
             r3 == IF t.Filename = ""
                   THEN addResult(r2, "Manifest", Chk("track[%d].filename", <<i - 1>>),
                                  FALSE, "error", "track filename is required")
                   ELSE r2
         IN  validateTracks(r3, tracks, i + 1)

\* The report cut after its first failed result.
UpToFirstError(rep) ==
    LET failed == {i \in DOMAIN rep.Results : ~rep.Results[i].Passed}
        n == IF failed = {} THEN Len(rep.Results)
             ELSE CHOOSE i \in failed : \A j \in failed : i <= j
    IN  [Results |-> SubSeq(rep.Results, 1, n),
         Errors |-> IF failed = {} THEN 0 ELSE 1,
         Warns |-> 0]

\* The field checks that give up at the first missing field.
validateManifestFieldsStopAtFirst(rep, m) ==
    LET r1 == passOrError(rep, "Manifest", Chk("manifest_version present", <<>>),
                          m.ManifestVersion # 0, "manifest_version is required")
        r2 == passOrError(r1, "Manifest", Chk("release.title present", <<>>),
                          m.Title # "", "release.title is required")
        r3 == passOrError(r2, "Manifest", Chk("release.artist present", <<>>),
                          m.Artist # "", "release.artist is required")
        r4 == passOrError(r3, "Manifest", Chk("release.release_date present", <<>>),
                          m.ReleaseDate # "", "release.release_date is required")
        r5 == IF Len(m.Tracks) = 0
              THEN addResult(r4, "Manifest", Chk("tracks present", <<>>), FALSE, "error",
                             "at least one track is required")
              ELSE validateTracks(
                       addResult(r4, "Manifest", Chk("tracks present", <<>>), TRUE, "", ""),
                       m.Tracks, 1)
        r6 == passOrError(r5, "Manifest", Chk("audio_formats present", <<>>),
                          Len(m.AudioFormats) # 0, "at least one audio format is required")
        r7 == passOrError(r6, "Manifest", Chk("images.cover present", <<>>),
                          m.CoverFilename # "", "images.cover is required")
        r8 == passOrError(r7, "Manifest", Chk("rights.copyright_year present", <<>>),
                          m.CopyrightYear # 0, "rights.copyright_year is required")
        r9 == passOrError(r8, "Manifest", Chk("rights.copyright_holder present", <<>>),
                          m.CopyrightHolder # "", "rights.copyright_holder is required")
        r10 == passOrError(r9, "Manifest", Chk("bundle.bundle_id present", <<>>),
                    m.BundleID # <<>>, "bundle.bundle_id is required")
    IN  UpToFirstError(r10)

\* validateManifest after yaml.Unmarshal: the required fields, one by one.
validateManifestFields(rep, m) ==
    LET r1 == passOrError(rep, "Manifest", Chk("manifest_version present", <<>>),
                          m.ManifestVersion # 0, "manifest_version is required")
        r2 == passOrError(r1, "Manifest", Chk("release.title present", <<>>),
                          m.Title # "", "release.title is required")
        r3 == passOrError(r2, "Manifest", Chk("release.artist present", <<>>),
                          m.Artist # "", "release.artist is required")
        r4 == passOrError(r3, "Manifest", Chk("release.release_date present", <<>>),
                          m.ReleaseDate # "", "release.release_date is required")
        r5 == IF Len(m.Tracks) = 0
              THEN addResult(r4, "Manifest", Chk("tracks present", <<>>), FALSE, "error",
                             "at least one track is required")
              ELSE validateTracks(
                       addResult(r4, "Manifest", Chk("tracks present", <<>>), TRUE, "", ""),
                       m.Tracks, 1)
        r6 == passOrError(r5, "Manifest", Chk("audio_formats present", <<>>),
                          Len(m.AudioFormats) # 0, "at least one audio format is required")
        r7 == passOrError(r6, "Manifest", Chk("images.cover present", <<>>),
                          m.CoverFilename # "", "images.cover is required")
        r8 == passOrError(r7, "Manifest", Chk("rights.copyright_year present", <<>>),
                          m.CopyrightYear # 0, "rights.copyright_year is required")
        r9 == passOrError(r8, "Manifest", Chk("rights.copyright_holder present", <<>>),
                          m.CopyrightHolder # "", "rights.copyright_holder is required")
    IN  passOrError(r9, "Manifest", Chk("bundle.bundle_id present", <<>>),
                    m.BundleID # <<>>, "bundle.bundle_id is required")

\* validateManifest that goes on to the field checks after a failed read or
\* parse.
validateManifestKeepGoing(rep, tree) ==
    LET rd == ReadFile(tree, ManifestName)
        y == yamlUnmarshal(rd.data)
    IN  IF rd.err
        THEN validateManifestFields(
                 addResult(rep, "Manifest", Chk("readable", <<>>), FALSE, "error",
                           "cannot read manifest"),
                 ZeroManifest)
        ELSE validateManifestFields(
                 passOrError(rep, "Manifest", Chk("valid YAML syntax", <<>>), ~y.err,
                             "invalid YAML"),
                 y.m)

validateManifest(rep, tree) ==
    LET rd == ReadFile(tree, ManifestName)
        y == yamlUnmarshal(rd.data)
    IN  IF rd.err
        THEN addResult(rep, "Manifest", Chk("readable", <<>>), FALSE, "error",
                       "cannot read manifest")
        ELSE IF y.err
        THEN addResult(rep, "Manifest", Chk("valid YAML syntax", <<>>), FALSE, "error",
                       "invalid YAML")
        ELSE validateManifestFields(
                 addResult(rep, "Manifest", Chk("valid YAML syntax", <<>>), TRUE, "", ""),
                 y.m)

\* The sniff that knows an MP3 by its ID3 tag only.
verifyMagicBytesTagOnly(data, ext) ==
    LET header == ReadHeader(data, 12)
    IN  IF Len(header) < 4 THEN "cannot read file header"
        ELSE IF ext = ExtMp3
        THEN IF ~(header[1] = 73 /\ header[2] = 68 /\ header[3] = 51)
             THEN "file does not appear to be a valid MP3" ELSE ""
        ELSE IF ext = ExtFlac
        THEN IF ~(header[1] = 102 /\ header[2] = 76 /\ header[3] = 97 /\ header[4] = 67)
             THEN "file does not appear to be a valid FLAC" ELSE ""
        ELSE IF ext \in {ExtJpg, ExtJpeg}
        THEN IF ~(header[1] = 255 /\ header[2] = 216 /\ header[3] = 255)
             THEN "file does not appear to be a valid JPEG" ELSE ""
        ELSE IF ext = ExtOgg
        THEN IF ~(header[1] = 79 /\ header[2] = 103 /\ header[3] = 103 /\ header[4] = 83)
             THEN "file does not appear to be a valid OGG" ELSE ""
        ELSE IF ext = ExtWav
        THEN IF ~(header[1] = 82 /\ header[2] = 73 /\ header[3] = 70 /\ header[4] = 70)
             THEN "file does not appear to be a valid WAV" ELSE ""
        ELSE ""

\* "" when the leading bytes fit the extension, else the error text.
verifyMagicBytes(data, ext) ==
    LET header == ReadHeader(data, 12)
    IN  IF Len(header) < 4 THEN "cannot read file header"
        ELSE IF ext = ExtMp3
        THEN IF ~(header[1] = 73 /\ header[2] = 68 /\ header[3] = 51)
                /\ ~(header[1] = 255 /\ header[2] >= 224)
             THEN "file does not appear to be a valid MP3" ELSE ""
        ELSE IF ext = ExtFlac
        THEN IF ~(header[1] = 102 /\ header[2] = 76 /\ header[3] = 97 /\ header[4] = 67)
             THEN "file does not appear to be a valid FLAC" ELSE ""
        ELSE IF ext \in {ExtJpg, ExtJpeg}
        THEN IF ~(header[1] = 255 /\ header[2] = 216 /\ header[3] = 255)
             THEN "file does not appear to be a valid JPEG" ELSE ""
        ELSE IF ext = ExtOgg
        THEN IF ~(header[1] = 79 /\ header[2] = 103 /\ header[3] = 103 /\ header[4] = 83)
             THEN "file does not appear to be a valid OGG" ELSE ""
        ELSE IF ext = ExtWav
        THEN IF ~(header[1] = 82 /\ header[2] = 73 /\ header[3] = 70 /\ header[4] = 70)
             THEN "file does not appear to be a valid WAV" ELSE ""
        ELSE ""

validateCoverDimensions(data) ==
    IF Size(data) < MinCoverFileSize
    THEN "cover image appears too small (file size suggests low resolution)"
    ELSE ""

\* An iteration of the loop of validateAudio that does nothing once an entry
\* has failed.
audioEntryStopAtBad(st, tree, p) ==
    LET e == EntryAt(tree, p)
        name == Base(p)
        ext == ToLower(Ext(name))
        magic == verifyMagicBytes(e.data, ext)
    IN  IF e.dir THEN st
        ELSE IF \E i \in DOMAIN st.rep.Results :
                    st.rep.Results[i].Category = "Audio" /\ ~st.rep.Results[i].Passed
        THEN st
        ELSE IF ext \notin AllowedAudioExtensions
        THEN [st EXCEPT !.rep = addResult(st.rep, "Audio", Chk("file %s", name), FALSE,
                                          "error", "file type %s not allowed")]
        ELSE IF Size(e.data) > MaxSingleAudioFile
        THEN [st EXCEPT !.rep = addResult(st.rep, "Audio", Chk("file %s size", name), FALSE,
                                          "error", "file exceeds maximum size of %d MB")]
        ELSE IF magic # ""
        THEN [st EXCEPT !.rep = addResult(st.rep, "Audio", Chk("file %s magic bytes", name),
                                          FALSE, "error", magic)]
        ELSE [rep |-> addResult(st.rep, "Audio", Chk("file %s", name), TRUE, "", ""),
              audioCount |-> st.audioCount + 1]

\* One iteration of the loop of validateAudio; st = [rep, audioCount].
audioEntry(st, tree, p) ==
    LET e == EntryAt(tree, p)
        name == Base(p)
        ext == ToLower(Ext(name))
        magic == verifyMagicBytes(e.data, ext)
    IN  IF e.dir THEN st
        ELSE IF ext \notin AllowedAudioExtensions
        THEN [st EXCEPT !.rep = addResult(st.rep, "Audio", Chk("file %s", name), FALSE,
                                          "error", "file type %s not allowed")]
        ELSE IF Size(e.data) > MaxSingleAudioFile
        THEN [st EXCEPT !.rep = addResult(st.rep, "Audio", Chk("file %s size", name), FALSE,
                                          "error", "file exceeds maximum size of %d MB")]
        ELSE IF magic # ""
        THEN [st EXCEPT !.rep = addResult(st.rep, "Audio", Chk("file %s magic bytes", name),
                                          FALSE, "error", magic)]
        ELSE [rep |-> addResult(st.rep, "Audio", Chk("file %s", name), TRUE, "", ""),
              audioCount |-> st.audioCount + 1]

RECURSIVE audioLoop(_, _, _)
audioLoop(st, tree, entries) ==
    IF entries = <<>> THEN st
    ELSE audioLoop(audioEntry(st, tree, entries[1]), tree, Tail(entries))

validateAudio(rep, tree) ==
    IF ~Exists(tree, AudioName) THEN rep
    ELSE IF ~IsDirAt(tree, AudioName)
    THEN addResult(rep, "Audio", Chk("readable", <<>>), FALSE, "error",
                   "cannot read audio directory")
    ELSE LET st == audioLoop([rep |-> rep, audioCount |-> 0], tree,
                             ReadDir(tree, AudioName))
         IN  IF st.audioCount = 0
             THEN addResult(st.rep, "Audio", Chk("at least one audio file", <<>>), FALSE,
                            "error", "no valid audio files found")
             ELSE st.rep

\* An iteration of the loop of validateImages that knows a cover by its
\* lower-case name only.
imageEntryCoverExact(rep, tree, p) ==
    LET e == EntryAt(tree, p)
        name == Base(p)
        ext == ToLower(Ext(name))
        magic == verifyMagicBytes(e.data, ext)
        dims == validateCoverDimensions(e.data)
    IN  IF e.dir THEN rep
        ELSE IF ext = ExtTxt THEN rep
        ELSE IF ext \notin AllowedImageExtensions
        THEN addResult(rep, "Images", Chk("file %s", name), FALSE, "error",
                       "file type %s not allowed")
        ELSE IF Size(e.data) > MaxSingleImageFile
        THEN addResult(rep, "Images", Chk("file %s size", name), FALSE, "error",
                       "file exceeds maximum size of %d MB")
        ELSE IF magic # ""
        THEN addResult(rep, "Images", Chk("file %s magic bytes", name), FALSE, "error", magic)
        ELSE IF HasPrefix(name, CoverStem) /\ dims # ""
        THEN addResult(rep, "Images", Chk("file %s dimensions", name), FALSE, "error", dims)
        ELSE addResult(rep, "Images", Chk("file %s", name), TRUE, "", "")

\* One iteration of the loop of validateImages.
imageEntry(rep, tree, p) ==
    LET e == EntryAt(tree, p)
        name == Base(p)
        ext == ToLower(Ext(name))
        magic == verifyMagicBytes(e.data, ext)
        dims == validateCoverDimensions(e.data)
    IN  IF e.dir THEN rep
        ELSE IF ext = ExtTxt THEN rep
        ELSE IF ext \notin AllowedImageExtensions
        THEN addResult(rep, "Images", Chk("file %s", name), FALSE, "error",
                       "file type %s not allowed")
        ELSE IF Size(e.data) > MaxSingleImageFile
        THEN addResult(rep, "Images", Chk("file %s size", name), FALSE, "error",
                       "file exceeds maximum size of %d MB")
        ELSE IF magic # ""
        THEN addResult(rep, "Images", Chk("file %s magic bytes", name), FALSE, "error", magic)
        ELSE IF HasPrefix(ToLower(name), CoverStem) /\ dims # ""
        THEN addResult(rep, "Images", Chk("file %s dimensions", name), FALSE, "error", dims)
        ELSE addResult(rep, "Images", Chk("file %s", name), TRUE, "", "")

RECURSIVE imageLoop(_, _, _)
imageLoop(rep, tree, entries) ==
    IF entries = <<>> THEN rep
    ELSE imageLoop(imageEntry(rep, tree, entries[1]), tree, Tail(entries))

validateImages(rep, tree) ==
    IF ~Exists(tree, ImagesName) THEN rep
    ELSE IF ~IsDirAt(tree, ImagesName)
    THEN addResult(rep, "Images", Chk("readable", <<>>), FALSE, "error",
                   "cannot read images directory")
    ELSE imageLoop(rep, tree, ReadDir(tree, ImagesName))

\* strings.Contains(relPath, "..")
IsTraversal(relPath) == Contains(relPath, DotDot)

\* The walk callback of validateSecurity for one entry below the root.
securityEntry(rep, tree, relPath) ==
    LET e == EntryAt(tree, relPath)
        ext == Ext(relPath)
    IN  IF IsTraversal(relPath)
        THEN addResult(rep, "Security", Chk("path %s", relPath), FALSE, "error",
                       "path traversal detected")
        ELSE IF ~e.dir /\ HasPrefix(Base(relPath), <<Dot>>)
        THEN addResult(rep, "Security", Chk("file %s", relPath), FALSE, "error",
                       "hidden files not allowed")
        ELSE IF e.dir THEN rep
        ELSE IF ext = <<>>
        THEN addResult(rep, "Security", Chk("file %s", relPath), FALSE, "error",
                       "files must have extensions")
        ELSE IF ToLower(ext) \notin AllAllowedExtensions
        THEN addResult(rep, "Security", Chk("file %s", relPath), FALSE, "error",
                       "file type %s not allowed")
        ELSE rep

RECURSIVE securityLoop(_, _, _)
securityLoop(rep, tree, paths) ==
    IF paths = <<>> THEN rep
    ELSE securityLoop(securityEntry(rep, tree, paths[1]), tree, Tail(paths))

validateSecurity(rep, tree) == securityLoop(rep, tree, Walk(tree))

CopyrightWord == <<99, 111, 112, 121, 114, 105, 103, 104, 116>>  \* "copyright"
HolderLabelUpper == <<67, 111, 112, 121, 114, 105, 103, 104, 116, 32, 72, 111, 108, 100, 101, 114, 58>>  \* "Copyright Holder:"
HolderLabelLower == <<99, 111, 112, 121, 114, 105, 103, 104, 116, 32, 104, 111, 108, 100, 101, 114, 58>>  \* "copyright holder:"
CopyrightGlyph == <<194, 169>>  \* the copyright sign in UTF-8

\* validateCopyright without the size ceiling.
validateCopyrightNoCeiling(rep, tree) ==
    LET rd == ReadFile(tree, CopyrightName)
        content == rd.data
        r1 == addResult(rep, "Copyright", Chk("file not empty", <<>>), TRUE, "", "")
        r2 == passOrError(r1, "Copyright", Chk("contains copyright declaration", <<>>),
                          Contains(ToLower(content), CopyrightWord),
                          "must contain 'Copyright' declaration")
        r3 == passOrError(r2, "Copyright", Chk("contains copyright holder", <<>>),
                          Contains(content, HolderLabelUpper)
                              \/ Contains(content, HolderLabelLower)
                              \/ Contains(content, CopyrightGlyph),
                          "must specify copyright holder")
    IN  IF rd.err THEN rep
        ELSE IF Size(content) = 0
        THEN addResult(rep, "Copyright", Chk("file not empty", <<>>), FALSE, "error",
                       "copyright.txt is empty")
        ELSE r3

validateCopyright(rep, tree) ==
    LET rd == ReadFile(tree, CopyrightName)
        content == rd.data
        r1 == addResult(rep, "Copyright", Chk("file not empty", <<>>), TRUE, "", "")
        r2 == passOrError(r1, "Copyright", Chk("contains copyright declaration", <<>>),
                          Contains(ToLower(content), CopyrightWord),
                          "must contain 'Copyright' declaration")
        r3 == passOrError(r2, "Copyright", Chk("contains copyright holder", <<>>),
                          Contains(content, HolderLabelUpper)
                              \/ Contains(content, HolderLabelLower)
                              \/ Contains(content, CopyrightGlyph),
                          "must specify copyright holder")
    IN  IF rd.err THEN rep
        ELSE IF Size(content) = 0
        THEN addResult(rep, "Copyright", Chk("file not empty", <<>>), FALSE, "error",
                       "copyright.txt is empty")
        ELSE IF Size(content) > MaxCopyrightSize
        THEN addResult(r3, "Copyright", Chk("file size", <<>>), FALSE, "error",
                       "copyright.txt exceeds 10 KB limit")
        ELSE r3

\* Validate that gives up at the first category with an error.
ValidateStopAtFailure(tree) ==
    LET r1 == validateStructure(EmptyReport, tree)
        r2 == validateManifest(r1, tree)
        r3 == validateAudio(r2, tree)
        r4 == validateImages(r3, tree)
        r5 == validateSecurity(r4, tree)
    IN  IF r1.Errors > 0 THEN r1
        ELSE IF r2.Errors > 0 THEN r2
        ELSE IF r3.Errors > 0 THEN r3
        ELSE IF r4.Errors > 0 THEN r4
        ELSE IF r5.Errors > 0 THEN r5
        ELSE validateCopyright(r5, tree)

\* Validator.Validate on an existing directory: the six checks in order.
Validate(tree) ==
    validateCopyright(
        validateSecurity(
            validateImages(
                validateAudio(
                    validateManifest(
                        validateStructure(EmptyReport, tree), tree), tree), tree), tree), tree)

----------------------------------------------------------------------------
(* filepath.Clean and filepath.Join on byte strings *)

FirstSlash(p) == CHOOSE i \in SlashPos(p) : \A j \in SlashPos(p) : i <= j

RECURSIVE Split(_)
\* strings.Split(p, "/")
Split(p) ==
    IF SlashPos(p) = {} THEN <<p>>
    ELSE <<SubSeq(p, 1, FirstSlash(p) - 1)>> \o Split(SubSeq(p, FirstSlash(p) + 1, Len(p)))

RECURSIVE CleanStep(_, _, _)
\* The element loop of filepath.Clean: "" and "." are dropped, ".." removes
\* the element before it (at the root it is dropped, at the start of a
\* relative path it is kept).
CleanStep(stack, segs, rooted) ==
    IF segs = <<>> THEN stack
    ELSE LET seg == segs[1]
             rest == Tail(segs)
         IN  IF seg = <<>> \/ seg = <<Dot>> THEN CleanStep(stack, rest, rooted)
             ELSE IF seg = DotDot
             THEN IF stack # <<>> /\ stack[Len(stack)] # DotDot
                  THEN CleanStep(SubSeq(stack, 1, Len(stack) - 1), rest, rooted)
                  ELSE IF rooted THEN CleanStep(stack, rest, rooted)
                  ELSE CleanStep(Append(stack, seg), rest, rooted)
             ELSE CleanStep(Append(stack, seg), rest, rooted)

RECURSIVE JoinSegs(_)
JoinSegs(segs) ==
    IF segs = <<>> THEN <<>>
    ELSE IF Len(segs) = 1 THEN segs[1]
    ELSE segs[1] \o <<Slash>> \o JoinSegs(Tail(segs))

Clean(p) ==
    IF p = <<>> THEN <<Dot>>
    ELSE LET rooted == p[1] = Slash
             body == JoinSegs(CleanStep(<<>>, Split(p), rooted))
         IN  IF rooted THEN <<Slash>> \o body
             ELSE IF body = <<>> THEN <<Dot>> ELSE body

\* filepath.Join(dir, name): empty elements are ignored, the result is Clean.
Join(dir, name) ==
    IF name = <<>> THEN Clean(dir) ELSE Clean(dir \o <<Slash>> \o name)

\* The directory part of an absolute clean path.
AbsDir(p) == IF LastSlash(p) <= 1 THEN <<Slash>> ELSE SubSeq(p, 1, LastSlash(p) - 1)

PathSeparator == Slash

\* strings.ReplaceAll(relPath, string(filepath.Separator), "/")
ToSlash(p) == [i \in 1..Len(p) |-> IF p[i] = PathSeparator THEN Slash ELSE p[i]]

----------------------------------------------------------------------------
(* Archives: a file on disk that is a sequence of zip entries *)

NoFile == [exists |-> FALSE, entries |-> <<>>]
ZipFile(entries) == [exists |-> TRUE, entries |-> entries]
ZipEntry(name, dir, data) == [name |-> name, dir |-> dir, data |-> data]

\* README.txt skipped at the top level too.
SkippedByBuildAnywhere(relPath) == Base(relPath) = ReadmeName

\* "Skip README.txt files in subdirectories"
SkippedByBuild(relPath) == Base(relPath) = ReadmeName /\ DirOf(relPath) # <<>>

\* The walk callback of Builder.Build for one entry: the entries it adds.
buildEntry(tree, relPath) ==
    LET e == EntryAt(tree, relPath)
    IN  IF SkippedByBuild(relPath) THEN <<>>
        ELSE IF e.dir THEN <<ZipEntry(ToSlash(relPath) \o <<Slash>>, TRUE, <<>>)>>
        ELSE <<ZipEntry(ToSlash(relPath), FALSE, e.data)>>

RECURSIVE buildLoop(_, _)
buildLoop(tree, paths) ==
    IF paths = <<>> THEN <<>>
    ELSE buildEntry(tree, paths[1]) \o buildLoop(tree, Tail(paths))

\* The entries Builder.Build writes when nothing fails.
BuildEntries(tree) == buildLoop(tree, Walk(tree))

\* The callback leaving signature.sig out of the new archive.
rebuildEntryUnsigned(tree, relPath) ==
    LET e == EntryAt(tree, relPath)
    IN  IF relPath = SignatureName THEN <<>>
        ELSE IF e.dir THEN <<ZipEntry(ToSlash(relPath) \o <<Slash>>, TRUE, <<>>)>>
        ELSE <<ZipEntry(ToSlash(relPath), FALSE, e.data)>>

\* The walk callback of rebuildBundle for one entry.
rebuildEntry(tree, relPath) ==
    LET e == EntryAt(tree, relPath)
    IN  IF e.dir THEN <<ZipEntry(ToSlash(relPath) \o <<Slash>>, TRUE, <<>>)>>
        ELSE <<ZipEntry(ToSlash(relPath), FALSE, e.data)>>

RECURSIVE rebuildLoop(_, _)
rebuildLoop(tree, paths) ==
    IF paths = <<>> THEN <<>>
    ELSE rebuildEntry(tree, paths[1]) \o rebuildLoop(tree, Tail(paths))

\* A rebuild that does not descend into the directories.
RebuildEntriesShallow(tree) ==
    rebuildLoop(tree, SelectSeq(Walk(tree), LAMBDA p : DirOf(p) = <<>>))

RebuildEntries(tree) == rebuildLoop(tree, Walk(tree))

----------------------------------------------------------------------------
(* extractBundle.  The file system it writes to is a set of entries with   *)
(* absolute paths; "/" and the directories down to destDir exist.          *)

IsSysDir(p, destDir) ==
    p = <<Slash>> \/ p = destDir \/ HasPrefix(destDir, p \o <<Slash>>)

IsDirOn(fs, p, destDir) == IsSysDir(p, destDir) \/ IsDirAt(fs, p)

RECURSIVE MkdirAll(_, _, _)
\* os.MkdirAll: creates the missing directories from the top down and
\* stops at a path that exists and is a file.
MkdirAll(fs, p, destDir) ==
    IF IsDirOn(fs, p, destDir) \/ IsFileAt(fs, p) THEN fs
    ELSE LET up == MkdirAll(fs, AbsDir(p), destDir)
         IN  IF IsDirOn(up, AbsDir(p), destDir) THEN up \cup {Directory(p)} ELSE up

\* The check without the trailing separator.
InsideDestNoSeparator(destPath, destDir) == HasPrefix(destPath, Clean(destDir))

\* The security check of extractBundle.
InsideDest(destPath, destDir) == HasPrefix(destPath, Clean(destDir) \o <<Slash>>)

\* One iteration of the loop of extractBundle; st = [err, fs].
extractEntry(st, f, destDir) ==
    LET write(destPath, withParents) ==
            IF IsDirOn(withParents, destPath, destDir)
                \/ ~IsDirOn(withParents, AbsDir(destPath), destDir)
            THEN [err |-> "create failed", fs |-> withParents]
            ELSE [err |-> "",
                  fs |-> {e \in withParents : e.path # destPath}
                             \cup {File(destPath, f.data)}]
        entry(destPath) ==
            IF ~InsideDest(destPath, destDir)
            THEN [st EXCEPT !.err = "invalid file path"]
            ELSE IF f.dir THEN [st EXCEPT !.fs = MkdirAll(st.fs, destPath, destDir)]
            ELSE write(destPath, MkdirAll(st.fs, AbsDir(destPath), destDir))
    IN  IF st.err # "" THEN st ELSE entry(Join(destDir, f.name))

RECURSIVE extractLoop(_, _, _)
extractLoop(st, entries, destDir) ==
    IF entries = <<>> THEN st
    ELSE extractLoop(extractEntry(st, entries[1], destDir), Tail(entries), destDir)

extractBundle(archive, destDir) ==
    IF ~archive.exists THEN [err |-> "open failed", fs |-> {}]
    ELSE extractLoop([err |-> "", fs |-> {}], archive.entries, destDir)

\* The tree below destDir, with paths relative to it.
RelTree(fs, destDir) ==
    {[path |-> SubSeq(e.path, Len(destDir) + 2, Len(e.path)), dir |-> e.dir,
      data |-> e.data] : e \in {x \in fs : HasPrefix(x.path, destDir \o <<Slash>>)}}

----------------------------------------------------------------------------
(* The content hasher *)

\* SHA-256 is taken to be collision-free: a digest is represented by the
\* byte stream that was written to the hash.
Sha256Sum(stream) == stream

\* The callback passing over empty files as well.
hashedNonEmpty(tree, relPath) ==
    /\ ~EntryAt(tree, relPath).dir
    /\ Base(relPath) # SignatureName
    /\ EntryAt(tree, relPath).data # <<>>

\* The walk callback of computeContentHash: is the entry appended to files?
hashed(tree, relPath) ==
    ~EntryAt(tree, relPath).dir /\ Base(relPath) # SignatureName

\* The files left in the order the walk found them.
sortFilesOmitted(files) == files

\* sort.Strings(files)
sortFiles(files) == SortStrings(files)

RECURSIVE hashStream(_, _)
\* The second loop: the relative path, then the contents, file after file.
hashStream(tree, files) ==
    IF files = <<>> THEN <<>>
    ELSE files[1] \o EntryAt(tree, files[1]).data \o hashStream(tree, Tail(files))

\* computeContentHash on a tree whose walk visits the entries in the order
\* walk.
computeContentHash(tree, walk) ==
    Sha256Sum(hashStream(tree, sortFiles(SelectSeq(walk, LAMBDA p : hashed(tree, p)))))

\* The separator of Windows paths.
Backslash == 92

\* filepath.Rel on a platform whose separator is sep, for the entry whose
\* '/'-separated relative path is p; and back.
RelOn(sep, p) == [i \in 1..Len(p) |-> IF p[i] = Slash THEN sep ELSE p[i]]

SlashedFrom(sep, p) == [i \in 1..Len(p) |-> IF p[i] = sep THEN Slash ELSE p[i]]

RECURSIVE hashStreamOn(_, _, _)
hashStreamOn(sep, tree, files) ==
    IF files = <<>> THEN <<>>
    ELSE files[1] \o EntryAt(tree, SlashedFrom(sep, files[1])).data
             \o hashStreamOn(sep, tree, Tail(files))

\* computeContentHash on a platform whose separator is sep: files holds
\* the relative paths as filepath.Rel returns them there.
computeContentHashOn(sep, tree, walk) ==
    LET kept == SelectSeq(walk, LAMBDA p : hashed(tree, p))
        files == [i \in 1..Len(kept) |-> RelOn(sep, kept[i])]
    IN  Sha256Sum(hashStreamOn(sep, tree, sortFiles(files)))

----------------------------------------------------------------------------
(* The signer *)

Keys == {1, 2}            \* key pairs; private key k belongs to public key k

\* An Ed25519 signature is determined by the key and the message.
ed25519Sign(priv, msg) == <<priv>> \o msg

\* base64 text of a byte string: an injective recoding into other symbols.
Base64(b) == [i \in 1..Len(b) |-> IF b[i] < 0 THEN b[i] - 256 ELSE b[i] + 256]

\* "-----BEGIN RICECAKE SIGNATURE-----\nVersion: 1\nBundle-ID: "
SigBegin == <<
    45, 45, 45, 45, 45, 66, 69, 71, 73, 78, 32, 82, 73, 67, 69, 67, 65, 75,
    69, 32, 83, 73, 71, 78, 65, 84, 85, 82, 69, 45, 45, 45, 45, 45, 10, 86,
    101, 114, 115, 105, 111, 110, 58, 32, 49, 10, 66, 117, 110, 100, 108,
    101, 45, 73, 68, 58, 32 >>
\* "\nCreated-At: "
SigCreatedAt == <<
    10, 67, 114, 101, 97, 116, 101, 100, 45, 65, 116, 58, 32 >>
\* "\nTool-Version: rice-cli v1.0.0\nHash-Algorithm: SHA-256\nContent-Hash: "
SigToolAndAlgo == <<
    10, 84, 111, 111, 108, 45, 86, 101, 114, 115, 105, 111, 110, 58, 32, 114,
    105, 99, 101, 45, 99, 108, 105, 32, 118, 49, 46, 48, 46, 48, 10, 72, 97,
    115, 104, 45, 65, 108, 103, 111, 114, 105, 116, 104, 109, 58, 32, 83, 72,
    65, 45, 50, 53, 54, 10, 67, 111, 110, 116, 101, 110, 116, 45, 72, 97,
    115, 104, 58, 32 >>
\* "\n\n"
SigBlank == <<10, 10>>
\* "\n-----END RICECAKE SIGNATURE-----\n"
SigEnd == <<
    10, 45, 45, 45, 45, 45, 69, 78, 68, 32, 82, 73, 67, 69, 67, 65, 75, 69,
    32, 83, 73, 71, 78, 65, 84, 85, 82, 69, 45, 45, 45, 45, 45, 10 >>

\* time.Now().UTC().Format(time.RFC3339): one symbol per second of the clock.
TimeText(now) == <<48 + now>>

createSignatureFile(bundleID, contentHash, signature, now) ==
    SigBegin \o bundleID \o SigCreatedAt \o TimeText(now) \o SigToolAndAlgo
        \o Base64(contentHash) \o SigBlank \o Base64(signature) \o SigEnd

\* "/tmp/rice-sign-1": the directory os.MkdirTemp makes
TempDir == <<
    47, 116, 109, 112, 47, 114, 105, 99, 101, 45, 115, 105, 103, 110, 45, 49 >>

SignFaults ==
    {"none", "mkdtemp", "open", "hash", "writeSig", "rebuildCreate", "rebuildWalk",
     "remove", "rename"}

\* Signer.SignBundle on the archive b with bundlePath + ".tmp" holding tmp:
\* the error it returns and the two files afterwards.  fault names the
\* system call that fails, cut the number of entries rebuildBundle has
\* written when its walk fails.
\* The deferred cleanup without effect.
RemoveAllOmitted(fs, dir) == fs

\* os.RemoveAll(dir) on a file system: dir and everything below it goes.
RemoveAll(fs, dir) ==
    {e \in fs : e.path # dir /\ ~HasPrefix(e.path, dir \o <<Slash>>)}

\* The directory dir holding the tree work, as entries with absolute paths.
InDir(work, dir) ==
    {Directory(dir)} \cup {[e EXCEPT !.path = dir \o <<Slash>> \o e.path] : e \in work}

SignBundle(b, tmp, key, now, fault, cut) ==
    LET \* what "defer os.RemoveAll(tempDir)" leaves of tempDir holding work
        left(work) == RemoveAll(InDir(work, TempDir), TempDir)
        fail(msg, work) ==
            [err |-> msg, bundle |-> b, tmp |-> tmp, scratch |-> left(work)]
        \* from rebuildBundle(tempDir, newBundlePath) on
        replace(signed, newEntries) ==
            IF fault = "rebuildCreate" THEN fail("failed to rebuild bundle", signed)
            ELSE IF fault = "rebuildWalk"
            THEN [err |-> "failed to rebuild bundle", bundle |-> b,
                  tmp |-> ZipFile(SubSeq(newEntries, 1, Min(cut, Len(newEntries)))),
                  scratch |-> left(signed)]
            ELSE IF fault = "remove"
            THEN [err |-> "failed to remove original bundle", bundle |-> b,
                  tmp |-> NoFile, scratch |-> left(signed)]
            ELSE IF fault = "rename"
            THEN [err |-> "failed to rename bundle", bundle |-> NoFile,
                  tmp |-> ZipFile(newEntries), scratch |-> left(signed)]
            ELSE [err |-> "", bundle |-> ZipFile(newEntries), tmp |-> NoFile,
                  scratch |-> left(signed)]
        rebuild(signed) == replace(signed, RebuildEntries(signed))
        \* from ed25519.Sign on
        sign(tree, bundleID, contentHash) ==
            IF fault = "writeSig" \/ IsDirAt(tree, SignatureName)
            THEN fail("failed to write signature file", tree)
            ELSE rebuild({e \in tree : e.path # SignatureName}
                             \cup {File(SignatureName,
                                        createSignatureFile(bundleID, contentHash,
                                            ed25519Sign(key, contentHash), now))})
        \* from yaml.Unmarshal on
        parsed(tree, y) ==
            IF y.err THEN fail("failed to parse manifest", tree)
            ELSE IF fault = "hash" THEN fail("failed to compute content hash", tree)
            ELSE sign(tree, y.m.BundleID, computeContentHash(tree, Walk(tree)))
        \* from os.ReadFile(manifestPath) on
        read(tree, rd) ==
            IF rd.err THEN fail("failed to read manifest", tree)
            ELSE parsed(tree, yamlUnmarshal(rd.data))
        extracted(ex, tree) ==
            IF fault = "open" THEN fail("failed to extract bundle", {})
            ELSE IF ex.err # "" THEN fail("failed to extract bundle", tree)
            ELSE read(tree, ReadFile(tree, ManifestName))
        unpack(ex) == extracted(ex, RelTree(ex.fs, TempDir))
    IN  IF fault = "mkdtemp"
        THEN [err |-> "failed to create temp directory", bundle |-> b, tmp |-> tmp,
              scratch |-> {}]
        ELSE unpack(extractBundle(b, TempDir))

----------------------------------------------------------------------------
(* Source trees *)

\* "Copyright (c) J" with the copyright sign
CopyrightText == <<67, 111, 112, 121, 114, 105, 103, 104, 116, 32, 194, 169, 32, 74>>

AudioA == <<97, 117, 100, 105, 111, 47, 97, 46, 109, 112, 51>>  \* "audio/a.mp3"
CoverJpg == <<105, 109, 97, 103, 101, 115, 47, 99, 111, 118, 101, 114, 46, 106, 112, 103>>  \* "images/cover.jpg"
ImagesReadme == <<105, 109, 97, 103, 101, 115, 47, 82, 69, 65, 68, 77, 69, 46, 116, 120, 116>>  \* "images/README.txt"
HiddenFile == <<46, 104, 105, 100, 100, 101, 110>>  \* ".hidden"
LicenseFile == <<76, 73, 67, 69, 78, 83, 69>>  \* "LICENSE"
ExeFile == <<120, 46, 101, 120, 101>>  \* "x.exe"
AudioDots == <<97, 117, 100, 105, 111, 47, 116, 46, 46, 109, 112, 51>>  \* "audio/t..mp3"
NotesFile == <<110, 111, 116, 101, 115, 46, 116, 120, 116>>  \* "notes.txt"

Mp3Bytes == <<73, 68, 51, 4>>                    \* "ID3" and a version byte
BigCover == <<255, 216, 255, 224, -10236>>       \* a JPEG header, 10240 bytes

ManifestVariants == {{}, {File(ManifestName, DocFull)}, {File(ManifestName, DocBad)}}
CoverVariants == {{}, {File(CoverJpg, BigCover)}}

BaseTree ==
    {File(CopyrightName, CopyrightText), Directory(AudioName), File(AudioA, Mp3Bytes),
     Directory(ImagesName)}

Extras ==
    {File(HiddenFile, <<1>>), File(LicenseFile, <<2>>), File(ExeFile, <<3>>),
     File(AudioDots, Mp3Bytes), File(ImagesReadme, <<4>>), File(ReadmeName, <<5>>),
     File(NotesFile, <<6>>), File(SignatureName, <<7>>)}

SourceTrees ==
    {BaseTree \cup m \cup c \cup x :
        m \in ManifestVariants, c \in CoverVariants,
        x \in {s \in SUBSET Extras : Cardinality(s) <= MaxExtras}}

----------------------------------------------------------------------------
(* Commands *)

Idle ==
    [op |-> "none", target |-> "", strict |-> FALSE, json |-> FALSE, quiet |-> FALSE,
     noValidate |-> FALSE, force |-> FALSE, verify |-> FALSE, fault |-> "none",
     key |-> 0, now |-> 0, err |-> "", exit |-> 0, validated |-> FALSE,
     built |-> FALSE, signing |-> FALSE, valid |-> FALSE, said |-> "", out |-> <<>>]

\* main: a command that returns an error exits with status 1.
ExitOf(err) == IF err = "" THEN 0 ELSE 1

\* outputJSON: the "valid" field it prints and the exit status.
outputJSON(rep) == [valid |-> rep.Errors = 0, said |-> "json", exit |-> 0]

\* outputText: the closing lines and the exit status.
outputText(rep, quiet, strict) ==
    LET errors == IF strict THEN rep.Errors + rep.Warns ELSE rep.Errors
    IN  IF errors > 0
        THEN [valid |-> FALSE, said |-> "Validation failed", exit |-> 2]
        ELSE [valid |-> TRUE, said |-> "Bundle is valid for building.", exit |-> 0]

\* The output modes of the validate command: --json wins over --quiet.
Modes == {"text", "quiet", "json"}

\* runValidate on the source directory or on the bundle file.
RunValidate(target, strict, mode) ==
    LET cmd == [Idle EXCEPT !.op = "validate", !.target = target, !.strict = strict,
                            !.json = (mode = "json"), !.quiet = (mode = "quiet")]
        rep == Validate(srcDir)
        out == IF mode = "json" THEN outputJSON(rep)
               ELSE outputText(rep, mode = "quiet", strict)
    IN  /\ IF target = "dir"
           THEN /\ report' = rep
                /\ last' = [cmd EXCEPT !.validated = TRUE, !.valid = out.valid,
                                       !.said = out.said, !.exit = out.exit]
           ELSE /\ report' = report
                /\ last' = [cmd EXCEPT !.err = IF bundle.exists
                                               THEN "validation of .ricecake files not yet implemented"
                                               ELSE "path does not exist",
                                       !.exit = 1]
        /\ UNCHANGED <<sniffIn, sniffOut, manifest, srcDir, bundle, bundleTmp, scratch, hashIn, hashOut,
                       exArchive, exResult>>

BuildFaults == {"none", "create", "walk"}

\* Builder.Build: the error and the file at outputPath afterwards.  The
\* deferred zipWriter.Close() completes the archive with the entries
\* written before the fault; cut is their number.
Build(tree, out, fault, cut) ==
    LET all == BuildEntries(tree)
    IN  IF fault = "create" THEN [err |-> "failed to create output file", file |-> out]
        ELSE IF fault = "walk"
        THEN [err |-> "failed to add files to bundle",
              file |-> ZipFile(SubSeq(all, 1, Min(cut, Len(all))))]
        ELSE [err |-> "", file |-> ZipFile(all)]

\* Packing whatever the validation found.
proceedsToBuildAlways(rep) == TRUE

\* The decision of runBuild after validation: does it go on to pack?
proceedsToBuild(rep) == rep.Errors = 0

\* runBuild(dir, output, noValidate, force) with the bundle path as output.
RunBuild(noValidate, force, fault, cut) ==
    LET cmd == [Idle EXCEPT !.op = "build", !.noValidate = noValidate, !.force = force,
                            !.fault = fault]
        rep == Validate(srcDir)
        b == Build(srcDir, NoFile, fault, cut)
    IN  /\ IF bundle.exists /\ ~force
           THEN /\ last' = [cmd EXCEPT !.err = "output file already exists", !.exit = 1]
                /\ UNCHANGED <<bundle, report>>
           ELSE IF ~noValidate /\ ~proceedsToBuild(rep)
           THEN /\ last' = [cmd EXCEPT !.err = "validation failed with %d error(s)",
                                       !.exit = 1, !.validated = TRUE]
                /\ report' = rep
                /\ bundle' = NoFile
           ELSE /\ last' = [cmd EXCEPT !.err = b.err, !.exit = ExitOf(b.err),
                                       !.validated = ~noValidate, !.built = TRUE]
                /\ report' = IF noValidate THEN report ELSE rep
                /\ bundle' = b.file
        /\ UNCHANGED <<sniffIn, sniffOut, manifest, srcDir, bundleTmp, scratch, hashIn, hashOut, exArchive, exResult>>

\* The describe command taking the first file of the archive for the manifest.
readManifestFromBundleFirstFile(b) ==
    LET found == {i \in DOMAIN b.entries : ~b.entries[i].dir}
    IN  IF found = {} THEN [err |-> "manifest.yaml not found in bundle", data |-> <<>>]
        ELSE [err |-> "",
              data |-> b.entries[CHOOSE i \in found : \A j \in found : i <= j].data]

\* readManifestFromBundle(bundlePath) on an archive that opens: the content of
\* the first entry named "manifest.yaml" or "./manifest.yaml".
readManifestFromBundle(b) ==
    LET found == {i \in DOMAIN b.entries :
                     b.entries[i].name \in {ManifestName, <<Dot, Slash>> \o ManifestName}}
    IN  IF found = {} THEN [err |-> "manifest.yaml not found in bundle", data |-> <<>>]
        ELSE [err |-> "",
              data |-> b.entries[CHOOSE i \in found : \A j \in found : i <= j].data]

\* What runDescribe prints after the header: the manifest and, when it does
\* not end with one, a line feed.
printManifest(data) ==
    IF data # <<>> /\ data[Len(data)] # 10 THEN data \o <<10>> ELSE data

\* runDescribe(path, rawOutput) on the source directory or on the bundle file.
RunDescribe(target, raw) ==
    LET cmd == [Idle EXCEPT !.op = "describe", !.target = target]
        shown(data) == [cmd EXCEPT !.said = IF raw THEN "raw" ELSE "header",
                                   !.out = printManifest(data)]
        fromDir(rd) ==
            IF rd.err THEN [cmd EXCEPT !.err = "failed to read manifest", !.exit = 1]
            ELSE shown(rd.data)
        fromBundle(rd) ==
            IF rd.err # ""
            THEN [cmd EXCEPT !.err = "failed to read manifest from bundle", !.exit = 1]
            ELSE shown(rd.data)
    IN  /\ last' = IF target = "dir" THEN fromDir(ReadFile(srcDir, ManifestName))
                   ELSE IF ~bundle.exists
                   THEN [cmd EXCEPT !.err = "path not found", !.exit = 1]
                   ELSE fromBundle(readManifestFromBundle(bundle))
        /\ UNCHANGED <<sniffIn, sniffOut, manifest, srcDir, bundle, bundleTmp, scratch,
                       report, hashIn, hashOut, exArchive, exResult>>

PrivateKeySize == 64

\* Where the private key comes from and what is found there: pem is the type
\* of the PEM block of a key file ("" when the file holds no PEM block, as in
\* an environment variable), decodable tells whether the text is base64, and
\* size is the length of the decoded bytes.
KeySource(from, present, pem, decodable, size, key) ==
    [from |-> from, present |-> present, pem |-> pem, decodable |-> decodable,
     size |-> size, key |-> key]

GoodKeySources ==
    {KeySource("file", TRUE, "", TRUE, PrivateKeySize, 1),
     KeySource("env", TRUE, "", TRUE, PrivateKeySize, 2),
     KeySource("file", TRUE, "PRIVATE KEY", TRUE, PrivateKeySize, 1),
     KeySource("file", TRUE, "ED25519 PRIVATE KEY", TRUE, PrivateKeySize, 2)}

\* The key in use when a system call of SignBundle fails.
FaultKeySource == KeySource("file", TRUE, "", TRUE, PrivateKeySize, 1)

BadKeySources ==
    {KeySource(f, FALSE, "", FALSE, 0, 0) : f \in {"file", "env"}}
    \cup {KeySource(f, TRUE, "", FALSE, 0, 0) : f \in {"file", "env"}}
    \cup {KeySource(f, TRUE, "", TRUE, n, 0) :
            f \in {"file", "env"}, n \in {0, 32, PrivateKeySize + 1}}
    \cup {KeySource("file", TRUE, "CERTIFICATE", TRUE, PrivateKeySize, 0)}
    \cup {KeySource("file", TRUE, t, TRUE, 32, 0) :
            t \in {"PRIVATE KEY", "ED25519 PRIVATE KEY"}}

\* The key loaders without the check of the key's length.
LoadPrivateKeyAnySize(src) ==
    IF ~src.present
    THEN [err |-> IF src.from = "file" THEN "failed to read key file"
                  ELSE "environment variable is not set", key |-> 0]
    ELSE IF src.from = "file" /\ src.pem # ""
    THEN IF src.pem \notin {"PRIVATE KEY", "ED25519 PRIVATE KEY"}
         THEN [err |-> "unexpected key type", key |-> 0]
         ELSE [err |-> "", key |-> src.key]
    ELSE IF ~src.decodable THEN [err |-> "failed to decode key", key |-> 0]
    ELSE [err |-> "", key |-> src.key]

\* LoadPrivateKey / LoadPrivateKeyFromEnv
LoadPrivateKey(src) ==
    IF ~src.present
    THEN [err |-> IF src.from = "file" THEN "failed to read key file"
                  ELSE "environment variable is not set", key |-> 0]
    ELSE IF src.from = "file" /\ src.pem # ""
    THEN IF src.pem \notin {"PRIVATE KEY", "ED25519 PRIVATE KEY"}
         THEN [err |-> "unexpected key type", key |-> 0]
         ELSE IF src.size # PrivateKeySize
         THEN [err |-> "invalid key size", key |-> 0]
         ELSE [err |-> "", key |-> src.key]
    ELSE IF ~src.decodable THEN [err |-> "failed to decode key", key |-> 0]
    ELSE IF src.size # PrivateKeySize THEN [err |-> "invalid key size", key |-> 0]
    ELSE [err |-> "", key |-> src.key]

\* runSign(bundlePath, keyPath, keyEnv) at the time now.
RunSign(src, now, fault, cut) ==
    LET cmd == [Idle EXCEPT !.op = "sign", !.fault = fault]
        k == LoadPrivateKey(src)
    IN  /\ IF ~bundle.exists
           THEN /\ last' = [cmd EXCEPT !.err = "bundle not found", !.exit = 1]
                /\ UNCHANGED <<bundle, bundleTmp, scratch>>
           ELSE IF k.err # ""
           THEN /\ last' = [cmd EXCEPT !.err = k.err, !.exit = 1]
                /\ UNCHANGED <<bundle, bundleTmp, scratch>>
           ELSE \E r \in {SignBundle(bundle, bundleTmp, k.key, now, fault, cut)} :
                /\ last' = [cmd EXCEPT !.err = r.err, !.exit = ExitOf(r.err),
                                       !.signing = TRUE, !.key = k.key, !.now = now]
                /\ bundle' = r.bundle
                /\ bundleTmp' = r.tmp
                /\ scratch' = scratch \cup r.scratch
        /\ UNCHANGED <<sniffIn, sniffOut, manifest, srcDir, report, hashIn, hashOut, exArchive, exResult>>

\* The "Signed:" line of outputInfoText.
signedLine(tree, verify) ==
    IF Exists(tree, SignatureName)
    THEN IF verify THEN "Signed: Yes (verification not yet implemented)"
         ELSE "Signed: Yes"
    ELSE "Signed: No"

\* runInfo on the source directory or on the bundle file.
RunInfo(target, json, verify) ==
    LET cmd == [Idle EXCEPT !.op = "info", !.target = target, !.json = json,
                            !.verify = verify]
        rd == ReadFile(srcDir, ManifestName)
        y == yamlUnmarshal(rd.data)
    IN  /\ last' =
              IF target = "bundle"
              THEN [cmd EXCEPT !.err = IF bundle.exists
                                       THEN "reading .ricecake files not yet implemented"
                                       ELSE "path not found",
                               !.exit = 1]
              ELSE IF rd.err THEN [cmd EXCEPT !.err = "failed to read manifest", !.exit = 1]
              ELSE IF y.err THEN [cmd EXCEPT !.err = "failed to parse manifest", !.exit = 1]
              ELSE IF json THEN [cmd EXCEPT !.said = "json"]
              ELSE [cmd EXCEPT !.said = signedLine(srcDir, verify)]
        /\ UNCHANGED <<sniffIn, sniffOut, manifest, srcDir, bundle, bundleTmp, scratch, report, hashIn, hashOut,
                       exArchive, exResult>>

----------------------------------------------------------------------------
(* Building a bundle from a source tree *)

ValidTree == BaseTree \cup {File(ManifestName, DocFull), File(CoverJpg, BigCover)}

PipelineTrees ==
    {ValidTree,
     ValidTree \cup {File(ImagesReadme, <<4>>)},
     ValidTree \cup {File(ReadmeName, <<5>>)},
     ValidTree \cup {File(SignatureName, <<7>>)},
     ValidTree \cup {File(HiddenFile, <<1>>)},
     BaseTree \cup {File(CoverJpg, BigCover)},
     BaseTree \cup {File(ManifestName, DocBad), File(CoverJpg, BigCover)}}

Unused ==
    /\ hashIn = [tree |-> {}, walk |-> <<>>]
    /\ hashOut = <<>>
    /\ exArchive = NoFile
    /\ exResult = [done |-> FALSE, err |-> "", fs |-> {}]
    /\ manifest = ZeroManifest
    /\ sniffIn = [data |-> <<>>, ext |-> <<>>]
    /\ sniffOut = [done |-> FALSE, err |-> ""]

Init ==
    /\ srcDir \in PipelineTrees
    /\ bundle = NoFile
    /\ bundleTmp = NoFile
    /\ scratch = {}
    /\ report = EmptyReport
    /\ last = Idle
    /\ Unused

Next ==
    \/ \E noValidate, force \in BOOLEAN, fault \in {"none", "create"} :
           RunBuild(noValidate, force, fault, 0)
    \/ \E noValidate, force \in BOOLEAN : RunBuild(noValidate, force, "walk", 1)
    \/ \E json, verify \in BOOLEAN : RunInfo("dir", json, verify)
    \/ \E target \in {"dir", "bundle"}, raw \in BOOLEAN : RunDescribe(target, raw)

Spec == Init /\ [][Next]_vars

----------------------------------------------------------------------------
(* Signing a bundle *)

Times == {0}

SignTrees ==
    {ValidTree,
     ValidTree \cup {File(SignatureName, <<7>>)},
     BaseTree \cup {File(CoverJpg, BigCover)},
     BaseTree \cup {File(ManifestName, DocBad), File(CoverJpg, BigCover)}}

InitSign ==
    /\ srcDir \in SignTrees
    /\ bundle = ZipFile(BuildEntries(srcDir))
    /\ bundleTmp = NoFile
    /\ scratch = {}
    /\ report = EmptyReport
    /\ last = Idle
    /\ Unused

NextSign ==
    \/ \E src \in GoodKeySources, now \in Times : RunSign(src, now, "none", 0)
    \/ \E src \in BadKeySources : RunSign(src, 0, "none", 0)
    \/ \E fault \in SignFaults \ {"none", "rebuildWalk"} :
           RunSign(FaultKeySource, 0, fault, 0)
    \/ RunSign(FaultKeySource, 0, "rebuildWalk", 1)
    \/ \E verify \in BOOLEAN : RunInfo("bundle", FALSE, verify)

SpecSign == InitSign /\ [][NextSign]_vars

----------------------------------------------------------------------------
(* Validation of a source tree *)

InitValidate ==
    /\ srcDir \in SourceTrees
    /\ bundle = ZipFile(<<>>)
    /\ bundleTmp = NoFile
    /\ scratch = {}
    /\ report = EmptyReport
    /\ last = Idle
    /\ Unused

NextValidate ==
    \/ \E strict \in BOOLEAN, mode \in Modes : RunValidate("dir", strict, mode)
    \/ RunValidate("bundle", FALSE, "text")

SpecValidate == InitValidate /\ [][NextValidate]_vars

----------------------------------------------------------------------------
(* Validation of trees that differ in the files of audio/, of images/ and *)
(* in copyright.txt                                                        *)

\* A JPEG header, 2048 bytes
SmallJpeg == <<255, 216, 255, 224, -2044>>

\* What may lie in audio/.
AudioPool ==
    {File(JoinPath(AudioName, <<97, 46, 109, 112, 51>>), Mp3Bytes),   \* a.mp3: ID3 tag
     File(JoinPath(AudioName, <<98, 46, 77, 80, 51>>), <<255, 251, 144, 0>>),   \* b.MP3: frame sync, upper-case extension
     File(JoinPath(AudioName, <<99, 46, 102, 108, 97, 99>>), <<102, 76, 97, 67, 0>>),   \* c.flac: "fLaC"
     File(JoinPath(AudioName, <<100, 46, 109, 112, 51>>), <<0, 0, 0, 0>>),   \* d.mp3: no signature
     File(JoinPath(AudioName, <<101, 46, 116, 120, 116>>), <<73, 68, 51, 4>>),   \* e.txt: not an audio extension
     File(JoinPath(AudioName, <<102, 46, 111, 103, 103>>), <<79, 103, 103>>),   \* f.ogg: three bytes
     File(JoinPath(AudioName, <<103, 46, 119, 97, 118>>), <<82, 73, 70, 70, 0 - (MaxSingleAudioFile - 3)>>),   \* g.wav: one byte above the maximum
     File(JoinPath(AudioName, <<104, 46, 119, 97, 118>>), <<82, 73, 70, 70, 0 - (MaxSingleAudioFile - 4)>>),   \* h.wav: exactly the maximum
     Directory(JoinPath(AudioName, <<115, 117, 98>>))}   \* sub/

\* What may lie in images/.
ImagePool ==
    {File(JoinPath(ImagesName, <<99, 111, 118, 101, 114, 46, 106, 112, 103>>), BigCover),   \* cover.jpg: 10240 bytes
     File(JoinPath(ImagesName, <<67, 111, 118, 101, 114, 46, 74, 80, 71>>), SmallJpeg),   \* Cover.JPG: a cover of 2 KB
     File(JoinPath(ImagesName, <<99, 111, 118, 101, 114, 116, 46, 106, 112, 101, 103>>), SmallJpeg),   \* covert.jpeg: begins with cover, 2 KB
     File(JoinPath(ImagesName, <<98, 97, 99, 107, 46, 106, 112, 101, 103>>), SmallJpeg),   \* back.jpeg: not a cover, 2 KB
     File(JoinPath(ImagesName, <<120, 46, 112, 110, 103>>), SmallJpeg),   \* x.png: not an image extension
     File(JoinPath(ImagesName, <<82, 69, 65, 68, 77, 69, 46, 116, 120, 116>>), <<4>>),   \* README.txt: helper file
     File(JoinPath(ImagesName, <<110, 111, 116, 101, 115, 46, 84, 88, 84>>), <<4>>),   \* notes.TXT: helper file, upper-case extension
     File(JoinPath(ImagesName, <<98, 105, 103, 46, 106, 112, 103>>), <<255, 216, 255, 224, 0 - (MaxSingleImageFile - 3)>>),   \* big.jpg: one byte above the maximum
     File(JoinPath(ImagesName, <<98, 97, 100, 46, 106, 112, 103>>), <<0, 0, 0, 0, 0 - MinCoverFileSize>>),   \* bad.jpg: no signature
     Directory(JoinPath(ImagesName, <<116, 104, 117, 109, 98, 115>>))}   \* thumbs/

\* What copyright.txt may hold.
CopyrightTexts ==
    {CopyrightText,   \* the word and the sign
     <<>>,   \* empty
     <<67, 79, 80, 89, 82, 73, 71, 72, 84, 32, 50, 48, 50, 52, 32, 74>>,   \* "COPYRIGHT 2024 J": the word, no holder
     <<194, 169, 32, 74>>,   \* "© J": the sign, not the word
     <<99, 111, 112, 121, 114, 105, 103, 104, 116, 32, 104, 111, 108, 100, 101, 114, 58, 32, 74>>,   \* "copyright holder: J": lower-case label
     <<67, 111, 112, 121, 114, 105, 103, 104, 116, 32, 72, 111, 108, 100, 101, 114, 58, 32, 74>>,   \* "Copyright Holder: J": upper-case label
     <<65, 108, 108, 32, 114, 105, 103, 104, 116, 115, 32, 114, 101, 115, 101, 114, 118, 101, 100>>,   \* "All rights reserved": neither word nor holder
     CopyrightText \o <<0 - (MaxCopyrightSize - 14)>>,   \* exactly 10 KB
     CopyrightText \o <<0 - (MaxCopyrightSize - 13)>>,   \* one byte above 10 KB
     <<120, 0 - MaxCopyrightSize>>}   \* neither word nor holder, above 10 KB

\* The tree with a whole manifest and the given copyright.txt, audio files
\* and images.
ContentTree(text, audio, images) ==
    {File(ManifestName, DocFull), File(CopyrightName, text),
     Directory(AudioName), Directory(ImagesName)} \cup audio \cup images

ContentTrees ==
    {ContentTree(CopyrightText, a, {File(CoverJpg, BigCover)}) :
        a \in {x \in SUBSET AudioPool : Cardinality(x) <= MaxEntries}}
    \cup {ContentTree(CopyrightText, {File(AudioA, Mp3Bytes)}, i) :
        i \in {x \in SUBSET ImagePool : Cardinality(x) <= MaxEntries}}
    \cup {ContentTree(t, {File(AudioA, Mp3Bytes)}, {File(CoverJpg, BigCover)}) :
        t \in CopyrightTexts}
    \cup SourceTrees

InitContent ==
    /\ srcDir \in ContentTrees
    /\ bundle = ZipFile(<<>>)
    /\ bundleTmp = NoFile
    /\ scratch = {}
    /\ report = EmptyReport
    /\ last = Idle
    /\ Unused

NextContent == \E strict \in BOOLEAN, mode \in Modes : RunValidate("dir", strict, mode)

SpecContent == InitContent /\ [][NextContent]_vars

----------------------------------------------------------------------------
(* The content hasher on its own: a tree, walked in any order *)

HashPool ==
    {File(<<97, 47, 98>>, <<1>>),        \* "a/b"
     File(<<97, 46, 98>>, <<2>>),        \* "a.b"
     File(<<99>>, <<>>),                 \* "c", empty
     File(SignatureName, <<9>>)}

\* The directories above the files of a tree.
RECURSIVE Ancestors(_)
Ancestors(p) == IF DirOf(p) = <<>> THEN {} ELSE {DirOf(p)} \cup Ancestors(DirOf(p))

WithDirs(files) ==
    files \cup {Directory(d) : d \in UNION {Ancestors(f.path) : f \in files}}

HashTrees == {WithDirs(s) : s \in {x \in SUBSET HashPool : Cardinality(x) <= MaxHashFiles}}

\* Every order in which a walk can visit the entries of a tree.
WalkOrders(tree) ==
    LET paths == {e.path : e \in tree}
        n == Cardinality(paths)
    IN  {w \in [1..n -> paths] : \A i, j \in 1..n : i # j => w[i] # w[j]}

\* computeContentHash on the tree, the walk visiting the entries in the
\* order walk; hashOut keeps the first digest and the latest one.
HashTree(walk) ==
    LET h == computeContentHash(hashIn.tree, walk)
    IN  /\ hashIn' = [hashIn EXCEPT !.walk = walk]
        /\ hashOut' = IF hashOut = <<>> THEN <<h>> ELSE <<hashOut[1], h>>
        /\ UNCHANGED <<sniffIn, sniffOut, manifest, srcDir, bundle, bundleTmp, scratch, report, last,
                       exArchive, exResult>>

InitHash ==
    /\ srcDir = {}
    /\ bundle = NoFile
    /\ bundleTmp = NoFile
    /\ scratch = {}
    /\ report = EmptyReport
    /\ last = Idle
    /\ hashIn \in {[tree |-> t, walk |-> <<>>] : t \in HashTrees}
    /\ hashOut = <<>>
    /\ exArchive = NoFile
    /\ exResult = [done |-> FALSE, err |-> "", fs |-> {}]
    /\ manifest = ZeroManifest
    /\ sniffIn = [data |-> <<>>, ext |-> <<>>]
    /\ sniffOut = [done |-> FALSE, err |-> ""]

NextHash == \E walk \in WalkOrders(hashIn.tree) : HashTree(walk)

SpecHash == InitHash /\ [][NextHash]_vars

\* computeContentHash on the tree as two platforms enumerate it: hashOut
\* holds the digest with '/' and the digest with '\'.
HashTreeOn(walk) ==
    /\ hashIn' = [hashIn EXCEPT !.walk = walk]
    /\ hashOut' = <<computeContentHashOn(Slash, hashIn.tree, walk),
                    computeContentHashOn(Backslash, hashIn.tree, walk)>>
    /\ UNCHANGED <<sniffIn, sniffOut, manifest, srcDir, bundle, bundleTmp, scratch, report, last,
                   exArchive, exResult>>

NextHashOn == \E walk \in WalkOrders(hashIn.tree) : HashTreeOn(walk)

SpecHashOn == InitHash /\ [][NextHashOn]_vars

----------------------------------------------------------------------------
(* The content hasher on two trees *)

\* The paths and the contents of the files of the two trees.
PairPaths ==
    {<<97>>,                                  \* "a"
     <<97, 98>>,                              \* "ab"
     <<115, 47>> \o SignatureName,            \* "s/signature.sig"
     SignatureName}

PairContents == {<<99>>, <<98, 99>>}          \* "c", "bc"

\* The trees of up to MaxHashFiles files with a path of PairPaths each.
PairTrees ==
    {WithDirs({File(p, f[p]) : p \in DOMAIN f}) :
        f \in UNION {[ps -> PairContents] :
                        ps \in {x \in SUBSET PairPaths : Cardinality(x) <= MaxHashFiles}}}

\* computeContentHash on the tree and on the other tree: hashOut holds the
\* two digests.
HashBoth ==
    /\ hashOut = <<>>
    /\ hashIn' = [hashIn EXCEPT !.walk = Walk(hashIn.tree)]
    /\ hashOut' = <<computeContentHash(hashIn.tree, Walk(hashIn.tree)),
                    computeContentHash(hashIn.other, Walk(hashIn.other))>>
    /\ UNCHANGED <<sniffIn, sniffOut, manifest, srcDir, bundle, bundleTmp, scratch,
                   report, last, exArchive, exResult>>

InitHashPair ==
    /\ srcDir = {}
    /\ bundle = NoFile
    /\ bundleTmp = NoFile
    /\ scratch = {}
    /\ report = EmptyReport
    /\ last = Idle
    /\ hashIn \in {[tree |-> t, walk |-> <<>>, other |-> u] : t \in PairTrees, u \in PairTrees}
    /\ hashOut = <<>>
    /\ exArchive = NoFile
    /\ exResult = [done |-> FALSE, err |-> "", fs |-> {}]
    /\ manifest = ZeroManifest
    /\ sniffIn = [data |-> <<>>, ext |-> <<>>]
    /\ sniffOut = [done |-> FALSE, err |-> ""]

NextHashPair == HashBoth

SpecHashPair == InitHashPair /\ [][NextHashPair]_vars

----------------------------------------------------------------------------
(* The field checks of validateManifest on their own: a parsed manifest *)

\* A track as yaml.Unmarshal fills it in: a number that is negative, absent
\* (0) or positive, a title and a file name that are absent or set.
TrackValues ==
    {[Number |-> n, Title |-> t, Filename |-> f] :
        n \in {0 - 1, 0, 1, 2}, t \in {"", "S"}, f \in {"", "a"}}

\* The track lists of up to MaxTracks tracks.
TrackLists == UNION {[1..n -> TrackValues] : n \in 0..MaxTracks}

\* The manifests with each of the nine other required fields absent or set.
FieldChoices ==
    {[ManifestVersion |-> v, Title |-> t, Artist |-> a, ReleaseDate |-> d,
      Tracks |-> <<>>, AudioFormats |-> af, CoverFilename |-> c,
      CopyrightYear |-> y, CopyrightHolder |-> h, BundleID |-> id] :
        v \in {0, 1}, t \in {"", "T"}, a \in {"", "A"}, d \in {"", "2024"},
        af \in {<<>>, <<"mp3">>}, c \in {"", "cover.jpg"}, y \in {0, 2024},
        h \in {"", "J"}, id \in {<<>>, <<98, 49>>}}

\* Every choice of the nine fields without tracks and with the one track of
\* FullManifest, and every track list in a manifest that lacks all the nine
\* and in one that has them all.
ParsedManifests ==
    FieldChoices
        \cup {[m EXCEPT !.Tracks = FullManifest.Tracks] : m \in FieldChoices}
        \cup {[m EXCEPT !.Tracks = ts] : m \in {ZeroManifest, FullManifest},
                                         ts \in TrackLists}

\* validateManifest from the successful yaml.Unmarshal on.
ValidateParsedManifest ==
    /\ report' = validateManifestFields(
                     addResult(EmptyReport, "Manifest", Chk("valid YAML syntax", <<>>),
                               TRUE, "", ""),
                     manifest)
    /\ last' = [Idle EXCEPT !.op = "manifest"]
    /\ UNCHANGED <<sniffIn, sniffOut, manifest, srcDir, bundle, bundleTmp, scratch, hashIn, hashOut,
                   exArchive, exResult>>

InitManifest ==
    /\ srcDir = {}
    /\ bundle = NoFile
    /\ bundleTmp = NoFile
    /\ scratch = {}
    /\ report = EmptyReport
    /\ last = Idle
    /\ hashIn = [tree |-> {}, walk |-> <<>>]
    /\ hashOut = <<>>
    /\ exArchive = NoFile
    /\ exResult = [done |-> FALSE, err |-> "", fs |-> {}]
    /\ manifest \in ParsedManifests
    /\ sniffIn = [data |-> <<>>, ext |-> <<>>]
    /\ sniffOut = [done |-> FALSE, err |-> ""]

NextManifest == ValidateParsedManifest

SpecManifest == InitManifest /\ [][NextManifest]_vars

----------------------------------------------------------------------------
(* verifyMagicBytes on its own: a file content and an extension *)

\* The signatures of the sniff table, the MP3 frame sync with two second
\* bytes, each with one byte more.
SniffSignatures ==
    {<<73, 68, 51, 4>>,          \* "ID3", version 4
     <<255, 251, 144, 0>>,       \* frame sync, second byte 0xFB
     <<255, 224, 0, 0>>,         \* frame sync, second byte 0xE0
     <<102, 76, 97, 67>>,        \* "fLaC"
     <<255, 216, 255, 224>>,     \* JPEG
     <<79, 103, 103, 83>>,       \* "OggS"
     <<82, 73, 70, 70>>}         \* "RIFF"

\* The signatures with one byte made wrong: 0xDF has only two of its top
\* three bits set.
SniffSpoiled ==
    {[s EXCEPT ![i] = b] : s \in SniffSignatures, i \in 1..4, b \in {0, 223}}

SniffPads == UNION {[1..n -> {0, 255}] : n \in 0..MaxPad}

\* Every beginning of a signature, and every signature and spoiled signature
\* with up to MaxPad bytes behind it.
SniffContents ==
    {SubSeq(s, 1, n) : s \in SniffSignatures, n \in 0..3}
        \cup {s \o pad : s \in SniffSignatures \cup SniffSpoiled, pad \in SniffPads}

SniffExtensions == {ExtMp3, ExtFlac, ExtJpg, ExtJpeg, ExtOgg, ExtWav}

\* A call of verifyMagicBytes(path, ext).
Sniff ==
    /\ ~sniffOut.done
    /\ sniffOut' = [done |-> TRUE, err |-> verifyMagicBytes(sniffIn.data, sniffIn.ext)]
    /\ UNCHANGED <<sniffIn, manifest, srcDir, bundle, bundleTmp, scratch, report, last,
                   hashIn, hashOut, exArchive, exResult>>

InitSniff ==
    /\ srcDir = {}
    /\ bundle = NoFile
    /\ bundleTmp = NoFile
    /\ scratch = {}
    /\ report = EmptyReport
    /\ last = Idle
    /\ hashIn = [tree |-> {}, walk |-> <<>>]
    /\ hashOut = <<>>
    /\ exArchive = NoFile
    /\ exResult = [done |-> FALSE, err |-> "", fs |-> {}]
    /\ manifest = ZeroManifest
    /\ sniffIn \in {[data |-> d, ext |-> x] : d \in SniffContents, x \in SniffExtensions}
    /\ sniffOut = [done |-> FALSE, err |-> ""]

NextSniff == Sniff

SpecSniff == InitSniff /\ [][NextSniff]_vars

----------------------------------------------------------------------------
(* extractBundle on its own: a crafted archive *)

CraftedEntries ==
    {ZipEntry(<<111, 107, 46, 116, 120, 116>>, FALSE, <<1>>),             \* "ok.txt"
     ZipEntry(<<100, 47>>, TRUE, <<>>),                                   \* "d/"
     ZipEntry(<<100, 47, 102>>, FALSE, <<2>>),                            \* "d/f"
     ZipEntry(<<100>>, FALSE, <<3>>),                                     \* "d", a file
     ZipEntry(<<97, 47, 46, 47, 98>>, FALSE, <<4>>),                      \* "a/./b"
     ZipEntry(<<47, 97, 98, 115>>, FALSE, <<5>>),                         \* "/abs"
     ZipEntry(<<46, 46, 47, 120>>, FALSE, <<6>>),                         \* "../x"
     ZipEntry(<<97, 47, 46, 46, 47, 46, 46, 47, 120>>, FALSE, <<7>>),     \* "a/../../x"
     ZipEntry(<<46, 46, 47, 114, 105, 99, 101, 45, 115, 105, 103, 110, 45, 49, 120, 47, 102>>,
              FALSE, <<8>>),                                              \* "../rice-sign-1x/f"
     ZipEntry(<<46, 46, 47>>, TRUE, <<>>)}                                \* "../"

CraftedArchives ==
    {ZipFile(s) : s \in UNION {[1..n -> CraftedEntries] : n \in 0..MaxArchiveLen}}

\* extractBundle(bundlePath, destDir) into a fresh directory.
Extract ==
    /\ ~exResult.done
    /\ exResult' = [done |-> TRUE] @@ extractBundle(exArchive, TempDir)
    /\ UNCHANGED <<sniffIn, sniffOut, manifest, srcDir, bundle, bundleTmp, scratch, report, last, hashIn, hashOut,
                   exArchive>>

InitExtract ==
    /\ srcDir = {}
    /\ bundle = NoFile
    /\ bundleTmp = NoFile
    /\ scratch = {}
    /\ report = EmptyReport
    /\ last = Idle
    /\ hashIn = [tree |-> {}, walk |-> <<>>]
    /\ hashOut = <<>>
    /\ exArchive \in CraftedArchives
    /\ exResult = [done |-> FALSE, err |-> "", fs |-> {}]
    /\ manifest = ZeroManifest
    /\ sniffIn = [data |-> <<>>, ext |-> <<>>]
    /\ sniffOut = [done |-> FALSE, err |-> ""]

NextExtract == Extract

SpecExtract == InitExtract /\ [][NextExtract]_vars

----------------------------------------------------------------------------
(* A report built result by result, and what the validate command makes    *)
(* of it *)

ResultKinds ==
    {[category |-> c, passed |-> ok, severity |-> sev] :
        c \in {"Structure", "Audio"}, ok \in BOOLEAN, sev \in {"", "error", "warning"}}

\* v.addResult(category, check, passed, severity, message)
AddResult(k) ==
    /\ Len(report.Results) < MaxResults
    /\ report' = addResult(report, k.category, Chk("check", <<>>), k.passed, k.severity, "")
    /\ last' = Idle
    /\ UNCHANGED <<sniffIn, sniffOut, manifest, srcDir, bundle, bundleTmp, scratch, hashIn, hashOut, exArchive, exResult>>

\* outputJSON(report) / outputText(report, quiet, strict)
Output(strict, mode) ==
    LET out == IF mode = "json" THEN outputJSON(report)
               ELSE outputText(report, mode = "quiet", strict)
    IN  /\ last' = [Idle EXCEPT !.op = "validate", !.target = "dir", !.strict = strict,
                                !.json = (mode = "json"), !.quiet = (mode = "quiet"),
                                !.validated = TRUE, !.valid = out.valid,
                                !.said = out.said, !.exit = out.exit]
        /\ UNCHANGED <<sniffIn, sniffOut, manifest, srcDir, bundle, bundleTmp, scratch, report, hashIn, hashOut,
                       exArchive, exResult>>

InitReport ==
    /\ srcDir = {}
    /\ bundle = NoFile
    /\ bundleTmp = NoFile
    /\ scratch = {}
    /\ report = EmptyReport
    /\ last = Idle
    /\ Unused

NextReport ==
    \/ \E k \in ResultKinds : AddResult(k)
    \/ \E strict \in BOOLEAN, mode \in Modes : Output(strict, mode)

SpecReport == InitReport /\ [][NextReport]_vars

----------------------------------------------------------------------------
(* Properties *)

\* The results of a report that belong to one category, in order.
ResultsIn(rep, category) == SelectSeq(rep.Results, LAMBDA r : r.Category = category)

ErrorsIn(rep, category) ==
    Len(SelectSeq(rep.Results,
                  LAMBDA r : r.Category = category /\ ~r.Passed /\ r.Severity = "error"))

ValidatedDir == last.op = "validate" /\ last.target = "dir"

\* C1: Validate on an existing directory returns a report and no error, and
\* the report holds, in the order Structure, Manifest, Audio, Images,
\* Security, Copyright, exactly the results each category gives when it is
\* run alone: no failure in an earlier category keeps a later one from
\* running.  A tree without manifest.yaml, without cover image and with a
\* hidden file has an error in each of Structure, Manifest and Security.
C1_AllCategoriesRun ==
    ValidatedDir =>
        /\ last.err = ""
        /\ report.Results =
               validateStructure(EmptyReport, srcDir).Results
                   \o validateManifest(EmptyReport, srcDir).Results
                   \o validateAudio(EmptyReport, srcDir).Results
                   \o validateImages(EmptyReport, srcDir).Results
                   \o validateSecurity(EmptyReport, srcDir).Results
                   \o validateCopyright(EmptyReport, srcDir).Results
        /\ (~Exists(srcDir, ManifestName) /\ ~CoverExists(srcDir)
                /\ Exists(srcDir, HiddenFile))
               => /\ ErrorsIn(report, "Structure") >= 1
                  /\ ErrorsIn(report, "Manifest") >= 1
                  /\ ErrorsIn(report, "Security") >= 1

C1_Witness ==
    /\ ValidatedDir
    /\ ~Exists(srcDir, ManifestName) /\ ~CoverExists(srcDir) /\ Exists(srcDir, HiddenFile)
    /\ ErrorsIn(report, "Structure") >= 2
    /\ ErrorsIn(report, "Security") >= 1
    /\ Len(ResultsIn(report, "Copyright")) >= 1

\* C2: the digest of a tree is the same whatever order the walk visits the
\* entries in and however often it is computed.
C2_DigestIgnoresWalkOrder == Len(hashOut) = 2 => hashOut[2] = hashOut[1]

\* The hashed files of a tree, in the order a walk visits them.
HashedInOrder(tree, walk) == SelectSeq(walk, LAMBDA p : hashed(tree, p))

C2_Witness ==
    /\ Len(hashOut) = 2
    /\ Len(HashedInOrder(hashIn.tree, hashIn.walk)) >= 2
    /\ HashedInOrder(hashIn.tree, hashIn.walk) # SortStrings(HashedInOrder(hashIn.tree, hashIn.walk))

\* The regular files of a tree.
Files(tree) == {e \in tree : ~e.dir}

\* The tree extractBundle makes of the archive at the bundle path.
Unpacked == RelTree(extractBundle(bundle, TempDir).fs, TempDir)

BuiltOk == last.op = "build" /\ last.built /\ last.err = ""

\* Is the path that of a README.txt below the top level?
IsNestedReadme(p) ==
    /\ Len(p) > Len(ReadmeName)
    /\ SubSeq(p, Len(p) - Len(ReadmeName), Len(p)) = <<Slash>> \o ReadmeName

\* The source tree without the README.txt files of its subdirectories.
WithoutNestedReadmes(tree) == {e \in tree : e.dir \/ ~IsNestedReadme(e.path)}

\* C3 as stated: after Build has packed the source tree, extractBundle makes
\* of the archive a tree with the same relative file names and the same
\* bytes, and with the same content digest as the source tree.
C3_RoundTripEveryFile ==
    BuiltOk =>
        /\ Files(Unpacked) = Files(srcDir)
        /\ computeContentHash(Unpacked, Walk(Unpacked))
               = computeContentHash(srcDir, Walk(srcDir))

\* C3, amended: after Build has packed a source tree to a path outside it,
\* extractBundle makes of the archive a tree with the relative file names
\* and bytes of the source tree less the README.txt files of its
\* subdirectories, and the digest of that tree is the digest of the source
\* tree less those files.
C3_RoundTripButNestedReadme ==
    BuiltOk =>
        /\ extractBundle(bundle, TempDir).err = ""
        /\ Files(Unpacked) = Files(WithoutNestedReadmes(srcDir))
        /\ computeContentHash(Unpacked, Walk(Unpacked))
               = computeContentHash(WithoutNestedReadmes(srcDir),
                                    Walk(WithoutNestedReadmes(srcDir)))

C3_Witness ==
    /\ BuiltOk
    /\ Exists(srcDir, ImagesReadme)
    /\ ~Exists(Unpacked, ImagesReadme)
    /\ IsFileAt(Unpacked, CoverJpg)

\* Does the archive hold a signature artifact?
CarriesSignature(b) ==
    \E i \in 1..Len(b.entries) : b.entries[i].name = SignatureName /\ ~b.entries[i].dir

\* Is the signature artifact of the archive one that key k makes of the
\* archive's present content?
ValidlySigned(b, k) ==
    \E tree \in {RelTree(extractBundle(b, TempDir).fs, TempDir)} :
    \E h \in {computeContentHash(tree, Walk(tree))} :
    \E y \in {yamlUnmarshal(ReadFile(tree, ManifestName).data)} :
        /\ IsFileAt(tree, SignatureName)
        /\ ~y.err
        /\ \E now \in Times :
               EntryAt(tree, SignatureName).data
                   = createSignatureFile(y.m.BundleID, h, ed25519Sign(k, h), now)

\* What the info command with --verify has told about the signature.
Verdict ==
    IF last.err # "" THEN "error"
    ELSE IF last.said = "Signed: No" THEN "absent"
    ELSE IF last.said = "Signed: Yes (verification not yet implemented)" THEN "unverified"
    ELSE "pass"

\* C4: verification of an archive says "pass" exactly when the archive
\* carries a signature made by a key pair of its present content, "absent"
\* when it carries no signature artifact, and "fail" otherwise.
C4_VerifyVerdict ==
    (last.op = "info" /\ last.verify /\ last.target = "bundle" /\ bundle.exists) =>
        Verdict = IF ~CarriesSignature(bundle) THEN "absent"
                  ELSE IF \E k \in Keys : ValidlySigned(bundle, k) THEN "pass"
                  ELSE "fail"

\* C5: a step in which SignBundle returns an error leaves the archive at
\* the bundle path as it was.
C5_OriginalKeptOnError ==
    [][(last'.op = "sign" /\ last'.signing /\ last'.err # "") => bundle' = bundle]_vars

\* Is the absolute path strictly below the directory, segment by segment?
StrictlyBelow(path, dir) ==
    LET ps == Split(path)
        ds == Split(dir)
    IN  /\ Len(ps) > Len(ds)
        /\ SubSeq(ps, 1, Len(ds)) = ds
        /\ \A i \in 1..Len(ps) : ps[i] # DotDot

\* C6: everything extractBundle has created lies strictly below destDir;
\* when it returns no error every entry of the archive resolves to a path
\* strictly below destDir, so an entry that resolves elsewhere makes it
\* return an error; and every file it has written has its parent directory.
C6_ExtractStaysInside ==
    exResult.done =>
        /\ \A e \in exResult.fs : StrictlyBelow(e.path, TempDir)
        /\ exResult.err = ""
               => \A i \in 1..Len(exArchive.entries) :
                      StrictlyBelow(Join(TempDir, exArchive.entries[i].name), TempDir)
        /\ \A e \in exResult.fs :
               ~e.dir => IsDirOn(exResult.fs, AbsDir(e.path), TempDir)

C6_Witness ==
    /\ exResult.done
    /\ exResult.err = "invalid file path"
    /\ \E e \in exResult.fs : ~e.dir /\ IsDirAt(exResult.fs, AbsDir(e.path))

\* C7: runBuild with validation enabled, once past the check of the output
\* path, validates first and invokes Build exactly when the report has no
\* error, whatever its warning count.
C7_BuildIffNoErrors ==
    (last.op = "build" /\ ~last.noValidate) =>
        /\ last.built => last.validated
        /\ last.validated =>
               /\ report = Validate(srcDir)
               /\ last.built <=> report.Errors = 0

C7_Witness ==
    /\ last.op = "build" /\ ~last.noValidate /\ last.validated
    /\ ~last.built
    /\ report.Errors >= 1
    /\ Exists(srcDir, ManifestName)

\* C8: the validate command exits with status 0 only when validation
\* succeeded, and with status 2 whenever the report has an error, in text,
\* quiet and JSON mode alike.
C8_ExitStatusTellsErrors ==
    (last.op = "validate" /\ last.validated) =>
        /\ last.exit = 0 => report.Errors = 0
        /\ report.Errors >= 1 => last.exit = 2

HasParentSegment(relPath) == \E i \in 1..Len(Split(relPath)) : Split(relPath)[i] = DotDot

\* The entries C10 wants an error for.
SecurityOffence(e) ==
    \/ HasParentSegment(e.path)
    \/ ~e.dir /\ HasPrefix(Base(e.path), <<Dot>>)
    \/ ~e.dir /\ Ext(e.path) = <<>>
    \/ ~e.dir /\ ToLower(Ext(e.path)) \notin AllAllowedExtensions

\* C10: after validation the report has a Security error for an entry of
\* the tree exactly when the entry's relative path has a ".." segment, or it
\* is a non-directory with a dot-name, or a file without extension, or a
\* file whose lower-cased extension is not allowed.
C10_SecurityErrorsExact ==
    ValidatedDir =>
        \A e \in srcDir :
            SecurityOffence(e)
                <=> \E i \in 1..Len(report.Results) :
                        /\ report.Results[i].Category = "Security"
                        /\ report.Results[i].Check.arg = e.path
                        /\ ~report.Results[i].Passed
                        /\ report.Results[i].Severity = "error"

\* The number of entries of the archive named signature.sig.
SignatureCount(b) ==
    Cardinality({i \in 1..Len(b.entries) : b.entries[i].name = SignatureName})

\* The tree extractBundle makes of an archive.
UnpackedOf(b) == RelTree(extractBundle(b, TempDir).fs, TempDir)

\* The signature record key k makes at time now of the content of a tree.
RecordOf(tree, k, now) ==
    createSignatureFile(yamlUnmarshal(ReadFile(tree, ManifestName).data).m.BundleID,
                        computeContentHash(tree, Walk(tree)),
                        ed25519Sign(k, computeContentHash(tree, Walk(tree))), now)

\* The step is a SignBundle call that returned no error.
SignedStep == last'.op = "sign" /\ last'.signing /\ last'.err = ""

\* C11: after a successful SignBundle, on an unsigned or on a signed
\* archive, the archive has exactly one entry signature.sig, a file at its
\* root holding the record this call made with its key at its time; and a
\* sign command that leaves an archive at the bundle path never turns an
\* archive with one signature into one without.
C11_OneSignatureTheLatest ==
    [][/\ SignedStep =>
              /\ bundle'.exists
              /\ SignatureCount(bundle') = 1
              /\ \E tree \in {UnpackedOf(bundle')} :
                     /\ IsFileAt(tree, SignatureName)
                     /\ EntryAt(tree, SignatureName).data
                            = RecordOf(tree, last'.key, last'.now)
       /\ (SignatureCount(bundle) = 1 /\ bundle'.exists)
              => SignatureCount(bundle') = 1]_vars

\* An archive that came with a signature.sig has been signed with key 2.
C11_Witness ==
    /\ last.op = "sign" /\ last.signing /\ last.err = "" /\ last.key = 2
    /\ Exists(srcDir, SignatureName)
    /\ SignatureCount(bundle) = 1
    /\ EntryAt(UnpackedOf(bundle), SignatureName).data = RecordOf(UnpackedOf(bundle), 2, last.now)
    /\ EntryAt(UnpackedOf(bundle), SignatureName).data # RecordOf(UnpackedOf(bundle), 1, last.now)

\* The entries of a tree or of an archive other than signature.sig.
ButSignature(tree) == {e \in tree : e.path # SignatureName}

EntriesButSignature(b) == SelectSeq(b.entries, LAMBDA f : f.name # SignatureName)

BundleIdOf(tree) == yamlUnmarshal(ReadFile(tree, ManifestName).data).m.BundleID

\* C12: a successful SignBundle leaves every entry of the archive other than
\* signature.sig as it was, path and bytes; the bundle identifier of the
\* manifest is the same before and after and is the one written in the
\* signature record; and the digest written in the record is the digest of
\* the tree the new archive unpacks to.
C12_SignChangesOnlySignature ==
    [][SignedStep =>
           \E before \in {UnpackedOf(bundle)}, after \in {UnpackedOf(bundle')} :
               /\ ButSignature(after) = ButSignature(before)
               /\ EntriesButSignature(bundle') = EntriesButSignature(bundle)
               /\ BundleIdOf(after) = BundleIdOf(before)
               /\ EntryAt(after, SignatureName).data
                      = createSignatureFile(BundleIdOf(before),
                            computeContentHash(after, Walk(after)),
                            ed25519Sign(last'.key, computeContentHash(after, Walk(after))),
                            last'.now)]_vars

\* A signed archive that still has the files of the source tree it was
\* built from, the one in audio/ among them.
C12_Witness ==
    /\ last.op = "sign" /\ last.signing /\ last.err = ""
    /\ Files(ButSignature(UnpackedOf(bundle))) = Files(ButSignature(srcDir))
    /\ IsFileAt(UnpackedOf(bundle), AudioA)
    /\ BundleIdOf(UnpackedOf(bundle)) = <<98, 49>>
    /\ SignatureCount(bundle) = 1

\* C13: the digest of a tree enumerated with '/' as separator is the digest
\* of the same tree enumerated with '\' as separator.
C13_DigestIgnoresSeparator ==
    hashOut # <<>> => hashOut[Len(hashOut)] = hashOut[1]

\* Byte-wise lexicographic order: a differs from b, and at the first place
\* where they differ a has ended or has the smaller byte.
BytesBefore(a, b) ==
    \E i \in 1..(Len(a) + 1) :
        /\ \A j \in 1..(i - 1) : j <= Len(b) /\ a[j] = b[j]
        /\ i <= Len(b)
        /\ i <= Len(a) => a[i] < b[i]

\* The paths the canonical serialization covers: the regular files whose
\* name is not that of the signature artifact.
CanonicalPaths(tree) ==
    {e.path : e \in {x \in tree : ~x.dir /\ Split(x.path)[Len(Split(x.path))] # SignatureName}}

RECURSIVE CanonicalStream(_, _)
\* The canonical serialization of the files at the paths S, least path first.
CanonicalStream(tree, S) ==
    IF S = {} THEN <<>>
    ELSE LET p == CHOOSE x \in S : \A y \in S \ {x} : BytesBefore(x, y)
         IN  p \o EntryAt(tree, p).data \o CanonicalStream(tree, S \ {p})

\* C14: the digest computeContentHash returns is the digest of the canonical
\* serialization: for each regular file other than the signature artifact,
\* in byte-wise order of the relative paths, the path and then the content;
\* empty files give their path, directories give nothing.
C14_DigestOfCanonicalStream ==
    hashOut # <<>> =>
        hashOut[Len(hashOut)]
            = Sha256Sum(CanonicalStream(hashIn.tree, CanonicalPaths(hashIn.tree)))

\* A tree with the directory a, the file a/b, the empty file c and a
\* signature.sig has been hashed.
C14_Witness ==
    /\ hashOut # <<>>
    /\ IsDirAt(hashIn.tree, <<97>>)
    /\ IsFileAt(hashIn.tree, <<99>>) /\ EntryAt(hashIn.tree, <<99>>).data = <<>>
    /\ IsFileAt(hashIn.tree, SignatureName)
    /\ hashOut[Len(hashOut)] = <<97, 47, 98, 1, 99>>

\* C15: when Builder.Build returns an error, the output path is as it was
\* when Build was called.  runBuild calls Build only with nothing at the
\* output path (it has refused an existing file or removed it), so there is
\* no file at the output path afterwards.
C15_FailedBuildLeavesNoArchive ==
    [][(last'.op = "build" /\ last'.built /\ last'.err # "") => ~bundle'.exists]_vars

\* Is the entry the scratch directory of SignBundle or something in it?
InScratchDir(e) == e.path = TempDir \/ HasPrefix(e.path, TempDir \o <<Slash>>)

\* C16: the directory SignBundle extracts into does not exist when
\* SignBundle is called and does not exist when it has returned, with or
\* without an error.
C16_ScratchDirRemoved ==
    [][last'.op = "sign" =>
           /\ \A e \in scratch : ~InScratchDir(e)
           /\ \A e \in scratch' : ~InScratchDir(e)]_vars

\* SignBundle has failed after it had extracted the archive.
C16_Witness ==
    /\ last.op = "sign" /\ last.signing
    /\ last.err = "failed to compute content hash"
    /\ extractBundle(bundle, TempDir).fs # {}
    /\ \A e \in scratch : ~InScratchDir(e)

\* What is wrong with a key source, told from the source alone.
KeyFaultOf(src) ==
    IF ~src.present THEN "missing"
    ELSE IF src.pem \notin {"", "PRIVATE KEY", "ED25519 PRIVATE KEY"} THEN "type"
    ELSE IF src.pem = "" /\ ~src.decodable THEN "decode"
    ELSE IF src.size # PrivateKeySize THEN "size"
    ELSE "none"

\* The reasons the key loaders give for each fault.
KeyReasons(fault) ==
    CASE fault = "missing" -> {"failed to read key file", "environment variable is not set"}
      [] fault = "type"    -> {"unexpected key type"}
      [] fault = "decode"  -> {"failed to decode key"}
      [] fault = "size"    -> {"invalid key size"}
      [] OTHER             -> {""}

AllKeyReasons ==
    UNION {KeyReasons(f) : f \in {"missing", "type", "decode", "size"}}

\* Every loader result on the key sources, and the last command, agree with
\* the fault of the source.
KeyFaultsRejected ==
    /\ \A src \in GoodKeySources \cup BadKeySources :
          /\ LoadPrivateKey(src).err \in KeyReasons(KeyFaultOf(src))
          /\ KeyFaultOf(src) # "none" => LoadPrivateKey(src).key = 0
          /\ \A other \in BadKeySources :
                KeyFaultOf(other) # KeyFaultOf(src)
                    => LoadPrivateKey(other).err # LoadPrivateKey(src).err
    /\ \A src \in BadKeySources : KeyFaultOf(src) # "none"
    /\ last.op = "sign" /\ last.err \in AllKeyReasons => ~last.signing
    /\ last.op = "sign" /\ last.signing
          => \E src \in GoodKeySources :
                KeyFaultOf(src) = "none" /\ src.key = last.key

\* A sign command that ends with a key error changes nothing on disk.
KeyErrorChangesNothing ==
    (last'.op = "sign" /\ last'.err \in AllKeyReasons)
        => /\ bundle' = bundle
           /\ bundleTmp' = bundleTmp
           /\ scratch' = scratch

\* C17: a key source that is missing, undecodable or of a length other than
\* the Ed25519 private key size makes the loader return an error with the
\* reason of that fault and no key; a sign command that ends with such an
\* error has not called SignBundle and has left the archive as it was, and
\* every call of SignBundle is made with a key of a faultless source.
C17_KeyFaultsFatalBeforeSigning ==
    []KeyFaultsRejected /\ [][KeyErrorChangesNothing]_vars

\* A sign command on an existing archive has stopped at a key of wrong size.
C17_Witness ==
    /\ last.op = "sign" /\ last.err = "invalid key size"
    /\ bundle.exists /\ ~last.signing

\* The manifest of the tree cannot be read, or is read and cannot be parsed.
ManifestUnusable(tree) ==
    \/ ~IsFileAt(tree, ManifestName)
    \/ /\ IsFileAt(tree, ManifestName)
       /\ EntryAt(tree, ManifestName).data \notin {DocFull, DocIdOnly, <<>>}

\* The results of the report after the first n ones.
ResultsAfter(rep, n) == SubSeq(rep.Results, n + 1, Len(rep.Results))

\* C18: when manifest.yaml cannot be read or parsed, the Manifest category
\* has exactly one result, a failed one of severity error ("readable" or
\* "valid YAML syntax"), no required-field check is in the report, and the
\* results that follow it are those of Audio, Images, Security and Copyright
\* as each gives them alone.
C18_ParseFailureOneManifestError ==
    (ValidatedDir /\ ManifestUnusable(srcDir)) =>
        /\ Len(ResultsIn(report, "Manifest")) = 1
        /\ ErrorsIn(report, "Manifest") = 1
        /\ ResultsIn(report, "Manifest")[1].Check =
               IF IsFileAt(srcDir, ManifestName) THEN Chk("valid YAML syntax", <<>>)
               ELSE Chk("readable", <<>>)
        /\ ResultsAfter(report, Len(ResultsIn(report, "Structure")) + 1) =
               validateAudio(EmptyReport, srcDir).Results
                   \o validateImages(EmptyReport, srcDir).Results
                   \o validateSecurity(EmptyReport, srcDir).Results
                   \o validateCopyright(EmptyReport, srcDir).Results

\* A tree whose manifest is not YAML has been validated, and each of the four
\* later categories has a result in the report.
C18_Witness ==
    /\ ValidatedDir
    /\ IsFileAt(srcDir, ManifestName)
    /\ EntryAt(srcDir, ManifestName).data = DocBad
    /\ ErrorsIn(report, "Manifest") = 1
    /\ \A c \in {"Audio", "Images", "Security", "Copyright"} :
          Len(ResultsIn(report, c)) >= 1

\* The checks of the required fields the manifest lacks: a number or size of
\* 0 and an empty text are what yaml.Unmarshal leaves of an absent field.
MissingFields(m) ==
    {Chk("manifest_version present", <<>>) : x \in {0} \cap {m.ManifestVersion}}
    \cup {Chk("release.title present", <<>>) : x \in {""} \cap {m.Title}}
    \cup {Chk("release.artist present", <<>>) : x \in {""} \cap {m.Artist}}
    \cup {Chk("release.release_date present", <<>>) : x \in {""} \cap {m.ReleaseDate}}
    \cup {Chk("tracks present", <<>>) : x \in {<<>>} \cap {m.Tracks}}
    \cup {Chk("track[%d].number", <<i - 1>>) :
            i \in {j \in DOMAIN m.Tracks : m.Tracks[j].Number = 0}}
    \cup {Chk("track[%d].title", <<i - 1>>) :
            i \in {j \in DOMAIN m.Tracks : m.Tracks[j].Title = ""}}
    \cup {Chk("track[%d].filename", <<i - 1>>) :
            i \in {j \in DOMAIN m.Tracks : m.Tracks[j].Filename = ""}}
    \cup {Chk("audio_formats present", <<>>) : x \in {<<>>} \cap {m.AudioFormats}}
    \cup {Chk("images.cover present", <<>>) : x \in {""} \cap {m.CoverFilename}}
    \cup {Chk("rights.copyright_year present", <<>>) : x \in {0} \cap {m.CopyrightYear}}
    \cup {Chk("rights.copyright_holder present", <<>>) : x \in {""} \cap {m.CopyrightHolder}}
    \cup {Chk("bundle.bundle_id present", <<>>) : x \in {<<>>} \cap {m.BundleID}}

\* The positions of the failed results of the report.
FailedAt(rep) == {i \in DOMAIN rep.Results : ~rep.Results[i].Passed}

FieldsChecked == last.op = "manifest"

\* C19: after the field checks of a parsed manifest the failed results are
\* all Manifest errors, there is exactly one for each required field the
\* manifest lacks and none for any other field: a manifest that lacks k
\* required fields has k Manifest errors, whichever fields they are.
C19_OneErrorPerMissingField ==
    FieldsChecked =>
        /\ \A i \in FailedAt(report) :
              /\ report.Results[i].Category = "Manifest"
              /\ report.Results[i].Severity = "error"
        /\ {report.Results[i].Check : i \in FailedAt(report)} = MissingFields(manifest)
        /\ Cardinality(FailedAt(report)) = Cardinality(MissingFields(manifest))
        /\ ErrorsIn(report, "Manifest") = Cardinality(MissingFields(manifest))
        /\ report.Errors = Cardinality(MissingFields(manifest))

\* A manifest that lacks the nine fields outside the tracks and, in its
\* second track, the number and the file name: eleven errors.
C19_Witness ==
    /\ FieldsChecked
    /\ Len(manifest.Tracks) = 2
    /\ manifest.Title = "" /\ manifest.BundleID = <<>>
    /\ manifest.Tracks[2].Number = 0 /\ manifest.Tracks[2].Filename = ""
    /\ ErrorsIn(report, "Manifest") = 11

\* The track numbers of the manifest are all greater than 0 and all different.
TrackNumbersValid(m) ==
    /\ \A i \in DOMAIN m.Tracks : m.Tracks[i].Number > 0
    /\ \A i, j \in DOMAIN m.Tracks :
          i # j => m.Tracks[i].Number # m.Tracks[j].Number

\* C20: a manifest whose field checks report no Manifest error has track
\* numbers that are all greater than 0 and pairwise different.
C20_AcceptedTrackNumbersValid ==
    (FieldsChecked /\ ErrorsIn(report, "Manifest") = 0) => TrackNumbersValid(manifest)

\* Does the content begin with the bytes sig?
BeginsWith(data, sig) ==
    /\ Len(data) >= Len(sig)
    /\ \A i \in 1..Len(sig) : data[i] = sig[i]

\* Are the top three bits of the byte set?
TopThreeBitsSet(b) == b \div 32 = 7

\* The sniff table: does the content carry the signature of the extension?
InSniffTable(data, ext) ==
    IF ext = ExtMp3
    THEN \/ BeginsWith(data, <<73, 68, 51>>)
         \/ Len(data) >= 2 /\ data[1] = 255 /\ TopThreeBitsSet(data[2])
    ELSE IF ext = ExtFlac THEN BeginsWith(data, <<102, 76, 97, 67>>)
    ELSE IF ext \in {ExtJpg, ExtJpeg} THEN BeginsWith(data, <<255, 216, 255>>)
    ELSE IF ext = ExtOgg THEN BeginsWith(data, <<79, 103, 103, 83>>)
    ELSE IF ext = ExtWav THEN BeginsWith(data, <<82, 73, 70, 70>>)
    ELSE FALSE

Sniffed == sniffOut.done

\* C23 as stated: verifyMagicBytes accepts a file if and only if its leading
\* bytes carry the signature the sniff table gives for its extension.
C23_SniffTableExact ==
    Sniffed => (sniffOut.err = "" <=> InSniffTable(sniffIn.data, sniffIn.ext))

\* C23, amended: verifyMagicBytes accepts a file if and only if the file has
\* at least four bytes and its leading bytes carry the signature the sniff
\* table gives for its extension; a file of fewer than four bytes is
\* rejected whatever it begins with.
C23_SniffTableFromFourBytes ==
    Sniffed =>
        /\ sniffOut.err = "" <=>
               (Len(sniffIn.data) >= 4 /\ InSniffTable(sniffIn.data, sniffIn.ext))
        /\ Len(sniffIn.data) < 4 => sniffOut.err = "cannot read file header"

\* An MP3 without tag has been accepted by its frame sync.
C23_Witness ==
    /\ Sniffed
    /\ sniffIn.ext = ExtMp3
    /\ BeginsWith(sniffIn.data, <<255, 251>>)
    /\ Len(sniffIn.data) > 4
    /\ sniffOut.err = ""

\* The non-directory entries directly inside the directory dir of the tree.
FilesIn(tree, dir) == {e \in tree : ~e.dir /\ DirOf(e.path) = dir}

\* The positions of the results of a category that are about the file name.
ResultsAbout(rep, category, name) ==
    {i \in DOMAIN rep.Results :
        rep.Results[i].Category = category /\ rep.Results[i].Check.arg = name}

\* Has the content at least four bytes and the signature of the extension?
SniffOk(data, ext) ==
    Size(data) >= 4 /\ InSniffTable(ReadHeader(data, 4), ext)

\* An entry of audio/ that meets the three rules for audio files.
AudioOk(e) ==
    /\ ToLower(Ext(Base(e.path))) \in AllowedAudioExtensions
    /\ Size(e.data) <= MaxSingleAudioFile
    /\ SniffOk(e.data, ToLower(Ext(Base(e.path))))

NoAudioCheck == Chk("at least one audio file", <<>>)

\* C21: with an audio directory, every non-directory entry directly in it has
\* exactly one Audio result, which passes if and only if the extension is an
\* allowed audio extension, the size is within the maximum and the magic
\* bytes match; the one other Audio result there can be is the error "at
\* least one audio file", present if and only if no entry passed.
C21_EveryAudioEntryJudged ==
    (ValidatedDir /\ IsDirAt(srcDir, AudioName)) =>
        /\ \A e \in FilesIn(srcDir, AudioName) :
              /\ Cardinality(ResultsAbout(report, "Audio", Base(e.path))) = 1
              /\ \A i \in ResultsAbout(report, "Audio", Base(e.path)) :
                    report.Results[i].Passed <=> AudioOk(e)
        /\ Len(ResultsIn(report, "Audio")) =
               Cardinality(FilesIn(srcDir, AudioName))
                   + Cardinality({i \in ResultsAbout(report, "Audio", <<>>) :
                                     report.Results[i].Check = NoAudioCheck})
        /\ (\E i \in DOMAIN report.Results :
                /\ report.Results[i].Check = NoAudioCheck
                /\ ~report.Results[i].Passed
                /\ report.Results[i].Severity = "error")
               <=> ~\E e \in FilesIn(srcDir, AudioName) : AudioOk(e)

\* An audio directory with one valid and two invalid files: three results,
\* one passed, and no "at least one audio file" error.
C21_Witness ==
    /\ ValidatedDir
    /\ Cardinality(FilesIn(srcDir, AudioName)) = 3
    /\ Cardinality({e \in FilesIn(srcDir, AudioName) : AudioOk(e)}) = 1
    /\ Len(ResultsIn(report, "Audio")) = 3
    /\ ErrorsIn(report, "Audio") = 2

\* Is the entry of images/ a helper file, which validateImages passes over?
IsTextHelper(e) == ToLower(Ext(Base(e.path))) = ExtTxt

\* Does the name of the entry begin with "cover" in any letter case?
IsCover(e) ==
    /\ Len(Base(e.path)) >= 5
    /\ ToLower(SubSeq(Base(e.path), 1, 5)) = <<99, 111, 118, 101, 114>>

\* An entry of images/ that meets the rules for images.
ImageOk(e) ==
    /\ ToLower(Ext(Base(e.path))) \in {ExtJpg, ExtJpeg}
    /\ Size(e.data) <= MaxSingleImageFile
    /\ SniffOk(e.data, ToLower(Ext(Base(e.path))))
    /\ IsCover(e) => Size(e.data) >= 10 * 1024

\* C22: every non-directory entry directly in images/ that is not a .txt
\* helper file has exactly one Images result, which passes if and only if
\* the extension is .jpg or .jpeg, the size is within the image maximum, the
\* JPEG magic bytes match and, when the name begins with "cover" in any
\* letter case, the file is not too small for a cover; helper files and
\* directories have no result.
C22_EveryImageJudged ==
    (ValidatedDir /\ IsDirAt(srcDir, ImagesName)) =>
        /\ \A e \in FilesIn(srcDir, ImagesName) :
              IF IsTextHelper(e)
              THEN ResultsAbout(report, "Images", Base(e.path)) = {}
              ELSE /\ Cardinality(ResultsAbout(report, "Images", Base(e.path))) = 1
                   /\ \A i \in ResultsAbout(report, "Images", Base(e.path)) :
                         report.Results[i].Passed <=> ImageOk(e)
        /\ Len(ResultsIn(report, "Images")) =
               Cardinality({e \in FilesIn(srcDir, ImagesName) : ~IsTextHelper(e)})

\* A cover of 2 KB with a JPEG signature and an upper-case name has a failed
\* Images result, beside a small image that is no cover and has passed.
C22_Witness ==
    /\ ValidatedDir
    /\ \E e \in FilesIn(srcDir, ImagesName) :
          /\ IsCover(e) /\ Base(e.path)[1] = 67
          /\ Size(e.data) = 2048 /\ SniffOk(e.data, ExtJpg)
          /\ \E i \in ResultsAbout(report, "Images", Base(e.path)) :
                ~report.Results[i].Passed /\ report.Results[i].Severity = "error"
    /\ \E e \in FilesIn(srcDir, ImagesName) :
          /\ ~IsCover(e) /\ Size(e.data) = 2048
          /\ \E i \in ResultsAbout(report, "Images", Base(e.path)) :
                report.Results[i].Passed

\* Does the text hold the bytes sub, one after the other?
Holds(text, sub) ==
    \E i \in 1..(Len(text) - Len(sub) + 1) :
        \A j \in 1..Len(sub) : text[i + j - 1] = sub[j]

\* The same letter in either case?
SameLetter(a, b) ==
    \/ a = b
    \/ a >= 65 /\ a <= 90 /\ b = a + 32
    \/ b >= 65 /\ b <= 90 /\ a = b + 32

\* Does the text hold the word sub in any letter case?
HoldsAnyCase(text, sub) ==
    \E i \in 1..(Len(text) - Len(sub) + 1) :
        \A j \in 1..Len(sub) : SameLetter(text[i + j - 1], sub[j])

\* The rules a non-empty copyright text violates, by the name of their check.
CopyrightViolations(text) ==
    IF Size(text) = 0 THEN {"file not empty"}
    ELSE {c \in {"contains copyright declaration"} :
              ~HoldsAnyCase(text, <<99, 111, 112, 121, 114, 105, 103, 104, 116>>)}
         \cup {c \in {"contains copyright holder"} :
              /\ ~Holds(text, HolderLabelUpper)
              /\ ~Holds(text, HolderLabelLower)
              /\ ~Holds(text, <<194, 169>>)}
         \cup {c \in {"file size"} : Size(text) > 10 * 1024}

\* The checks of a category that have failed with severity error.
FailedChecks(rep, category) ==
    {rep.Results[i].Check.name :
        i \in {j \in DOMAIN rep.Results :
                  /\ rep.Results[j].Category = category
                  /\ ~rep.Results[j].Passed
                  /\ rep.Results[j].Severity = "error"}}

\* C24: for a readable copyright.txt the failed Copyright checks are exactly
\* the violated rules, one error each: empty (then nothing else is checked),
\* no "copyright" in any letter case, no holder label and no copyright sign,
\* more than 10 KB; a file that violates none has no Copyright error.
C24_CopyrightErrorsExact ==
    (ValidatedDir /\ IsFileAt(srcDir, CopyrightName)) =>
        /\ FailedChecks(report, "Copyright")
               = CopyrightViolations(EntryAt(srcDir, CopyrightName).data)
        /\ ErrorsIn(report, "Copyright")
               = Cardinality(CopyrightViolations(EntryAt(srcDir, CopyrightName).data))
        /\ Size(EntryAt(srcDir, CopyrightName).data) = 0
               => Len(ResultsIn(report, "Copyright")) = 1

\* A text above 10 KB without the word and without a holder: three errors.
C24_Witness ==
    /\ ValidatedDir
    /\ IsFileAt(srcDir, CopyrightName)
    /\ Size(EntryAt(srcDir, CopyrightName).data) > 10 * 1024
    /\ ErrorsIn(report, "Copyright") = 3

Described == last.op = "describe"

\* The bundle file is the archive Build makes of the source directory.
BundleBuiltFromSource == bundle.exists /\ bundle.entries = BuildEntries(srcDir)

\* The bytes with a line feed behind them unless they end with one.
WithFinalNewline(data) ==
    IF data = <<>> THEN data
    ELSE IF data[Len(data)] = 10 THEN data ELSE Append(data, 10)

\* C25: for a source tree with a manifest.yaml, describe prints the bytes of
\* that file both when given the directory and when given the archive built
\* from the tree; given an archive without a manifest.yaml entry it returns
\* an error and prints nothing.
C25_DescribeSameFromArchive ==
    /\ (Described /\ IsFileAt(srcDir, ManifestName) /\ last.target = "dir")
          => /\ last.err = ""
             /\ last.out = WithFinalNewline(EntryAt(srcDir, ManifestName).data)
    /\ (Described /\ IsFileAt(srcDir, ManifestName) /\ last.target = "bundle"
            /\ BundleBuiltFromSource)
          => /\ last.err = ""
             /\ last.out = WithFinalNewline(EntryAt(srcDir, ManifestName).data)
    /\ (Described /\ last.target = "bundle" /\ bundle.exists
            /\ ~\E i \in DOMAIN bundle.entries :
                   ~bundle.entries[i].dir /\ Base(bundle.entries[i].name) = ManifestName)
          => /\ last.err # ""
             /\ last.exit = 1
             /\ last.out = <<>>

\* Describe has printed the manifest out of an archive built from the tree.
C25_Witness ==
    /\ Described /\ last.target = "bundle"
    /\ BundleBuiltFromSource
    /\ IsFileAt(srcDir, ManifestName)
    /\ last.out # <<>> /\ last.err = ""

\* Describe has failed on an archive without manifest.
C25_WitnessNoManifest ==
    /\ Described /\ last.target = "bundle"
    /\ BundleBuiltFromSource
    /\ ~Exists(srcDir, ManifestName)
    /\ last.err # ""

\* The positions of the failed results of severity error, and of the other
\* failed results.
ErrorPositions(rep) ==
    {i \in DOMAIN rep.Results : ~rep.Results[i].Passed /\ rep.Results[i].Severity = "error"}

WarnPositions(rep) ==
    {i \in DOMAIN rep.Results : ~rep.Results[i].Passed /\ rep.Results[i].Severity # "error"}

\* The counters of the report are those of its results.
CountersMatch ==
    /\ report.Errors = Cardinality(ErrorPositions(report))
    /\ report.Warns = Cardinality(WarnPositions(report))

\* A step that changes the results adds one result behind the others, and a
\* passed result leaves both counters as they were.
ResultsAppendOnly ==
    report'.Results # report.Results =>
        /\ Len(report'.Results) = Len(report.Results) + 1
        /\ SubSeq(report'.Results, 1, Len(report.Results)) = report.Results
        /\ report'.Results[Len(report'.Results)].Passed
              => (report'.Errors = report.Errors /\ report'.Warns = report.Warns)

\* C26: after every addResult the results are the earlier results followed
\* by the new one, Errors is the number of failed results of severity error,
\* Warns the number of the other failed results, and a passed result changes
\* neither counter.
C26_CountersMatchResults ==
    []CountersMatch /\ [][ResultsAppendOnly]_vars

\* A report of a failed result that is no error and a passed result that
\* carries the severity error.
C26_Witness ==
    /\ Len(report.Results) = 2
    /\ ~report.Results[1].Passed /\ report.Results[1].Severity = "warning"
    /\ report.Results[2].Passed /\ report.Results[2].Severity = "error"
    /\ report.Errors = 0 /\ report.Warns = 1

BothHashed == Len(hashOut) = 2 /\ "other" \in DOMAIN hashIn

\* The two trees have the same paths and differ in the bytes of one file,
\* which is not the signature at the top of the tree.
OneFileChanged(t, u) ==
    /\ {[path |-> e.path, dir |-> e.dir] : e \in t}
           = {[path |-> e.path, dir |-> e.dir] : e \in u}
    /\ \E e \in Files(t) :
          /\ e.path # SignatureName
          /\ e \notin u
          /\ t \ {e} \subseteq u

\* C27: when two trees differ in nothing but the bytes of one regular file
\* that is not signature.sig at the top of the tree, at whatever depth and
\* of whatever name, the data fed to the digest differ.
C27_EveryOtherFileCovered ==
    (BothHashed /\ OneFileChanged(hashIn.tree, hashIn.other))
        => hashOut[1] # hashOut[2]

\* The (path, bytes) pairs of the files of a tree that are not named
\* signature.sig.
PathBytePairs(t) ==
    {<<e.path, e.data>> : e \in {x \in Files(t) : Base(x.path) # SignatureName}}

\* C28: two trees whose sets of (relative path, file bytes) pairs differ are
\* never serialized to the same byte stream.
C28_SerializationInjective ==
    (BothHashed /\ PathBytePairs(hashIn.tree) # PathBytePairs(hashIn.other))
        => hashOut[1] # hashOut[2]

\* C29: a build that finds a file at the output path leaves that file as it
\* is and fails when --force is not given, and leaves it as it is when
\* --force is given and the validation stops the build.
C29_ExistingOutputKept ==
    [][(last'.op = "build" /\ bundle.exists) =>
           /\ ~last'.force => (bundle' = bundle /\ last'.err # "")
           /\ (last'.force /\ last'.validated /\ ~last'.built) => bundle' = bundle]_vars

\* A passed result without severity, or a failed one of severity error.
WellFormed(r) == IF r.Passed THEN r.Severity = "" ELSE r.Severity = "error"

\* C30: every result of a validation is well-formed: a passed result has no
\* severity and a failed one has severity error; so the report counts no
\* warning, every failed result is counted as an error, and the verdict is
\* the same with and without --strict.
C30_ResultsWellFormed ==
    ValidatedDir =>
        /\ \A i \in DOMAIN report.Results : WellFormed(report.Results[i])
        /\ report.Warns = 0
        /\ report.Errors = Cardinality(FailedAt(report))
        /\ last.valid = (report.Errors = 0)

\* A strict validation of a tree with two failed Audio results and passed
\* results beside them.
C30_Witness ==
    /\ ValidatedDir /\ last.strict
    /\ ErrorsIn(report, "Audio") = 2
    /\ Len(ResultsIn(report, "Audio")) = 3
    /\ report.Errors = 2
    /\ ~last.valid

====
